---------------------------- MODULE Spec2Model ----------------------------
(***************************************************************************)
(* Saved-flashcards engine: the saved_flashcards index store, the          *)
(* custom_flashcards content store, cursor pagination over the index, the  *)
(* client's page cache with optimistic favourite toggle and the 5-second   *)
(* cancellable unsave/delete countdown, and the custom-flashcard sync.     *)
(***************************************************************************)
EXTENDS Integers, Sequences, FiniteSets, TLC

(***************************************************************************)
(* Bounds of the model.                                                    *)
(***************************************************************************)
\* rows of the walked owner in the pagination specification
MaxRows == 42
\* setTimeout callbacks alive at once
MaxTimers == 2
\* favourite updates in flight at once
MaxToggles == 1
\* handler calls the user makes in one run (clicks on the page)
MaxOps == 3
\* checkAndSyncFlashcards invocations in one run
MaxProcs == 2
\* toggleSave calls in flight at once
MaxSaves == 2
\* the owner's ACTIVE custom_flashcards rows when the sync is studied
MaxCustom == 3

(***************************************************************************)
(* Program constants and vocabulary.                                       *)
(***************************************************************************)
\* const limit = 20
limit == 20
\* cursor?: string left undefined / nextCursor: undefined
NoCursor == 0
\* user === null: no session
NoUser == "none"
Owners == {"u1", "u2"}
\* flashcard_type: 'APP' | 'CUSTOM'
FlashcardTypes == {"APP", "CUSTOM"}

VARIABLES
    saved,                  \* table saved_flashcards: a set of rows
    custom,                 \* table custom_flashcards: a set of rows
    now,                    \* the clock read by new Date() / now()
    user,                   \* the session's user id, or NoUser
    env,                    \* the content service and the details lookup
    pages,                  \* react-query data.pages of ['saved-flashcards']
    savedFlashcardsDetails, \* useState: the flattened list
    dataDirty,              \* data changed, the flattening effect has not run
    stale,                  \* ['saved-flashcards'] invalidated, refetch due
    pendingUnsave,          \* useState<PendingUnsave | null>
    showCountdownToast,     \* useState(false)
    timers,                 \* the setTimeout callbacks, oldest first
    toggles,                \* favourite updates awaiting the store's answer
    out,                    \* the last toast or console.error of a handler
    pre,                    \* history: stores and cache at the last request
    procs,                  \* checkAndSyncFlashcards invocations
    syncStatus,             \* useState: {needsSync, unsyncedCount} | null
    ops,                    \* handler calls made so far by the user
    savedCards,             \* useSavedFlashcards: useState<Set<string>>
    stored,                 \* localStorage saved_flashcards_${user.id}, or NoEntry
    saves,                  \* toggleSave calls awaiting the store, oldest first
    fetching                \* a fetchSavedFlashcardsPage call under way, or none

storeVars == <<saved, custom, now>>
cacheVars == <<pages, savedFlashcardsDetails, dataDirty>>
pendVars  == <<pendingUnsave, showCountdownToast, timers>>
syncVars  == <<procs, syncStatus>>
hookVars  == <<savedCards, stored, saves>>
vars == <<saved, custom, now, user, env, pages, savedFlashcardsDetails, dataDirty,
          stale, pendingUnsave, showCountdownToast, timers, toggles, out, pre,
          procs, syncStatus, ops, savedCards, stored, saves, fetching>>

(***************************************************************************)
(* Sequence helpers.                                                       *)
(***************************************************************************)
\* Array.prototype.slice(0, n)
Take(s, n) == SubSeq(s, 1, IF Len(s) < n THEN Len(s) ELSE n)

\* Array.prototype.filter, with the predicate given as the set it accepts
RECURSIVE FilterSeq(_, _)
FilterSeq(s, keep) ==
    IF s = << >> THEN << >>
    ELSE (IF Head(s) \in keep THEN <<Head(s)>> ELSE << >>) \o FilterSeq(Tail(s), keep)

\* pages.flatMap(page => page.items)
RECURSIVE FlatMapItems(_)
FlatMapItems(ps) ==
    IF ps = << >> THEN << >> ELSE Head(ps).items \o FlatMapItems(Tail(ps))

Range(s) == {s[i] : i \in 1..Len(s)}

MaxSavedAt(rows) == CHOOSE t \in {r.saved_at : r \in rows} :
                        \A r \in rows : r.saved_at <= t

\* .order('saved_at', { ascending: false }): every order the database may
\* return; rows with equal saved_at come in any order.
RECURSIVE DescOrders(_)
DescOrders(rows) ==
    IF rows = {} THEN {<< >>}
    ELSE LET tops == {r \in rows : r.saved_at = MaxSavedAt(rows)}
         IN  UNION {{<<r>> \o s : s \in DescOrders(rows \ {r})} : r \in tops}

(***************************************************************************)
(* Index store adapter: savedFlashcardsAPI.getSavedFlashcardsPaginated.    *)
(***************************************************************************)
\* mutant: .lte('saved_at', cursor) in place of .lt
CursorQuery_Lte(rows, uid, cursor) ==
    {r \in rows : r.UserID = uid /\ (cursor = NoCursor \/ r.saved_at <= cursor)}

\* .eq('UserID', user.id) and, with a cursor, .lt('saved_at', cursor)
CursorQuery(rows, uid, cursor) ==
    {r \in rows : r.UserID = uid /\ (cursor = NoCursor \/ r.saved_at < cursor)}

\* mutant: hasMore = data.length >= limit
PageOf_Geq(data) ==
    LET items == Take(data, limit)
        hasMore == Len(data) >= limit
    IN  [items |-> items,
         nextCursor |-> IF hasMore /\ Len(items) > 0
                        THEN items[Len(items)].saved_at ELSE NoCursor]

\* items = data.slice(0, limit); hasMore = data.length > limit;
\* nextCursor = hasMore && items.length > 0 ? last item's saved_at : undefined
PageOf(data) ==
    LET items == Take(data, limit)
        hasMore == Len(data) > limit
    IN  [items |-> items,
         nextCursor |-> IF hasMore /\ Len(items) > 0
                        THEN items[Len(items)].saved_at ELSE NoCursor]

\* the results the call may return: one per order of the query, .limit(limit + 1)
getSavedFlashcardsPaginated(rows, uid, cursor) ==
    {PageOf(Take(ord, limit + 1)) : ord \in DescOrders(CursorQuery(rows, uid, cursor))}

(***************************************************************************)
(* Identifiers.  An id is a record: ns is the 'custom_' prefix or nothing, *)
(* key stands for the uuid.  AppId(1) is an APP flashcard's id, CustomId(1)*)
(* a row of custom_flashcards, and its mirror in saved_flashcards carries   *)
(* CustomPrefixed(CustomId(1)).  APP and custom uuids never coincide.       *)
(***************************************************************************)
AppId(k) == [ns |-> "", key |-> 2 * k]
CustomId(k) == [ns |-> "", key |-> 2 * k + 1]

\* `custom_${customFlashcardId}`
CustomPrefixed(cid) == [cid EXCEPT !.ns = "custom_" \o @]

\* flashcard_id.replace('custom_', ''): a leading 'custom_' is removed, an id
\* without it is left as it is
StripCustom(fid) == IF fid.ns = "custom_" THEN [fid EXCEPT !.ns = ""] ELSE fid

SavedRow(id, uid, fid, type, at, fav) ==
    [id |-> id, UserID |-> uid, flashcard_id |-> fid, flashcard_type |-> type,
     saved_at |-> at, is_favorite |-> fav]

CustomRow(cid, uid, status) == [id |-> cid, user_id |-> uid, status |-> status]

(***************************************************************************)
(* Content resolver: fetchSavedFlashcardsPage.                             *)
(***************************************************************************)
\* mutant: the lookup is not filtered by the owner
getCustomFlashcardsByIds_AnyOwner(ids) ==
    IF ids = {} \/ user = NoUser THEN {}
    ELSE {c.id : c \in {c \in custom : c.status = "ACTIVE" /\ c.id \in ids}}

\* getCustomFlashcardsByIds: .eq('user_id', user.id).eq('status', 'ACTIVE').in('id', ids)
getCustomFlashcardsByIds(ids) ==
    IF ids = {} \/ user = NoUser THEN {}
    ELSE {c.id : c \in {c \in custom : c.user_id = user /\ c.status = "ACTIVE"
                                        /\ c.id \in ids}}

\* What the race of getFlashcardDetailsByIds against the timeout leaves: the
\* records the content service holds among the ids asked for, when it answers in
\* time; [] after a timeout or an error (caught and logged).
RemoteResponses(ids) == {IF env.remoteUp THEN ids \cap env.remote ELSE {}}

\* What the custom details lookup leaves: the rows found, or [] when the
\* query throws (caught and logged).
CustomResponses(ids) == {IF env.detailsUp THEN getCustomFlashcardsByIds(ids) ELSE {}}

\* savedCards.map(...): the saved row merged with its detail, or placeholders
Enrich(row, appDetails, customDetails) ==
    [id |-> row.id, UserID |-> row.UserID, flashcard_id |-> row.flashcard_id,
     flashcard_type |-> row.flashcard_type, saved_at |-> row.saved_at,
     is_favorite |-> row.is_favorite,
     resolved |-> IF row.flashcard_type = "APP"
                  THEN row.flashcard_id \in appDetails
                  ELSE StripCustom(row.flashcard_id) \in customDetails]

\* mutant: rows without a detail are left out of the page
EnrichAll_Drop(rows, appDetails, customDetails) ==
    LET all == [i \in 1..Len(rows) |-> Enrich(rows[i], appDetails, customDetails)]
    IN  FilterSeq(all, {f \in Range(all) : f.resolved})

EnrichAll(rows, appDetails, customDetails) ==
    [i \in 1..Len(rows) |-> Enrich(rows[i], appDetails, customDetails)]

\* the pages one call of fetchSavedFlashcardsPage(cursor) may return
fetchSavedFlashcardsPage(cursor) ==
    UNION { LET appFlashcardIds ==
                    {r.flashcard_id : r \in {r \in Range(res.items) :
                                              r.flashcard_type = "APP"}}
                customFlashcardIds ==
                    {StripCustom(r.flashcard_id) :
                        r \in {r \in Range(res.items) : r.flashcard_type = "CUSTOM"}}
            IN  IF Len(res.items) = 0
                THEN {[items |-> << >>, nextCursor |-> NoCursor]}
                ELSE {[items |-> EnrichAll(res.items, a, c),
                       nextCursor |-> res.nextCursor] :
                          a \in RemoteResponses(appFlashcardIds),
                          c \in CustomResponses(customFlashcardIds)}
          : res \in getSavedFlashcardsPaginated(saved, user, cursor) }

\* a refetch of the infinite query: the first page again, then each next page
\* by the cursor just returned, for as many pages as were held
RECURSIVE RefetchPages(_, _, _)
RefetchPages(k, cursor, first) ==
    IF k = 0 \/ (~first /\ cursor = NoCursor) THEN {<< >>}
    ELSE UNION {{<<p>> \o rest : rest \in RefetchPages(k - 1, p.nextCursor, FALSE)}
                : p \in fetchSavedFlashcardsPage(cursor)}

(***************************************************************************)
(* Local view cache: helpers over the flattened list and the pages.        *)
(***************************************************************************)
ItemIds(items) == {items[i].id : i \in 1..Len(items)}

\* prev.filter(f => f.id !== flashcardId)
RemoveById(items, flashcardId) ==
    FilterSeq(items, {f \in Range(items) : f.id # flashcardId})

\* pages.map(page => ({...page, items: page.items.filter(f => f.id !== flashcardId)}))
RemoveFromPages(ps, flashcardId) ==
    [i \in 1..Len(ps) |-> [ps[i] EXCEPT !.items = RemoveById(@, flashcardId)]]

\* prev.map(f => f.id === flashcardId ? {...f, is_favorite: value} : f)
SetFavorite(items, flashcardId, value) ==
    [i \in 1..Len(items) |->
        IF items[i].id = flashcardId
        THEN [items[i] EXCEPT !.is_favorite = value] ELSE items[i]]

SetFavoriteInPages(ps, flashcardId, value) ==
    [i \in 1..Len(ps) |-> [ps[i] EXCEPT !.items = SetFavorite(@, flashcardId, value)]]

\* mutant: the card is not put back into the list
RestoreToList_Skip(items, flashcard) == items

\* setSavedFlashcardsDetails(prev => [...prev, flashcard])
RestoreToList(items, flashcard) == Append(items, flashcard)

\* pages[0] = {...pages[0], items: [flashcard, ...pages[0].items]}
RestoreToPages(ps, flashcard) ==
    [ps EXCEPT ![1] = [@ EXCEPT !.items = <<flashcard>> \o @]]

\* savedFlashcardsDetails.find(f => f.id === flashcardId)
FindById(items, flashcardId) ==
    LET hits == {i \in 1..Len(items) : items[i].id = flashcardId}
    IN  items[CHOOSE i \in hits : \A j \in hits : i <= j]

Say(kind, id) == [kind |-> kind, id |-> id]

NoPre == [valid |-> FALSE, flashcardId |-> 0, pages |-> << >>, list |-> << >>,
          saved |-> {}, custom |-> {}]

(***************************************************************************)
(* Initial state: the page is mounted, the session is u1's, no query has   *)
(* answered yet.                                                            *)
(***************************************************************************)
InitSaved ==
    { SavedRow(1, "u1", AppId(1), "APP", 1, FALSE),
      SavedRow(2, "u1", CustomPrefixed(CustomId(1)), "CUSTOM", 2, TRUE),
      SavedRow(3, "u2", AppId(1), "APP", 3, FALSE) }

InitCustom ==
    { CustomRow(CustomId(1), "u1", "ACTIVE"),
      CustomRow(CustomId(2), "u1", "ACTIVE"),
      CustomRow(CustomId(3), "u2", "ACTIVE") }

\* no localStorage entry, no page fetch under way
NoEntry == [has |-> FALSE, ids |-> {}]

\* localStorage.setItem(key, JSON.stringify(ids))
Entry(ids) == [has |-> TRUE, ids |-> ids]

NoFetch == [pc |-> "none"]

\* useState(new Set()), nothing in flight
InitHook ==
    /\ savedCards = {}
    /\ stored = NoEntry
    /\ saves = << >>
    /\ fetching = NoFetch

InitClient ==
    /\ pages = << >>
    /\ savedFlashcardsDetails = << >>
    /\ dataDirty = FALSE
    /\ stale = FALSE
    /\ pendingUnsave = << >>
    /\ showCountdownToast = FALSE
    /\ timers = << >>
    /\ toggles = {}
    /\ out = Say("none", 0)
    /\ pre = NoPre
    /\ procs = << >>
    /\ syncStatus = << >>
    /\ ops = 0
    /\ InitHook

Init ==
    /\ saved = InitSaved
    /\ custom = InitCustom
    /\ now = 3
    /\ user = "u1"
    /\ env = [remote |-> {AppId(1)}, remoteUp |-> TRUE, detailsUp |-> TRUE]
    /\ InitClient

(***************************************************************************)
(* useInfiniteQuery: the first page, the next page, the refetch after an   *)
(* invalidation, and the effect that flattens data.pages.                  *)
(***************************************************************************)
hasNextPage == pages # << >> /\ pages[Len(pages)].nextCursor # NoCursor

\* queryFn with pageParam undefined, once the query is enabled
FetchFirstPage ==
    /\ pages = << >>
    /\ ~dataDirty
    /\ user # NoUser
    /\ \E p \in fetchSavedFlashcardsPage(NoCursor) :
          /\ pages' = <<p>>
          /\ dataDirty' = TRUE
    /\ pre' = NoPre
    /\ UNCHANGED <<storeVars, user, env, savedFlashcardsDetails, stale, pendVars,
                   toggles, out, syncVars, hookVars, fetching, ops>>

\* fetchNextPage(): queryFn with pageParam = getNextPageParam(lastPage)
FetchNextPage ==
    /\ hasNextPage
    /\ ~dataDirty
    /\ user # NoUser
    /\ \E p \in fetchSavedFlashcardsPage(pages[Len(pages)].nextCursor) :
          /\ pages' = Append(pages, p)
          /\ dataDirty' = TRUE
    /\ pre' = NoPre
    /\ UNCHANGED <<storeVars, user, env, savedFlashcardsDetails, stale, pendVars,
                   toggles, out, syncVars, hookVars, fetching, ops>>

\* the refetch that invalidateQueries({queryKey: ['saved-flashcards']}) starts
Refetch ==
    /\ stale
    /\ pages # << >>
    /\ ~dataDirty
    /\ user # NoUser
    /\ \E ps \in RefetchPages(Len(pages), NoCursor, TRUE) :
          /\ pages' = ps
          /\ dataDirty' = (ps # pages)
    /\ stale' = FALSE
    /\ pre' = NoPre
    /\ UNCHANGED <<storeVars, user, env, savedFlashcardsDetails, pendVars,
                   toggles, out, syncVars, hookVars, fetching, ops>>

\* useEffect(() => { if (data?.pages) setSavedFlashcardsDetails(flatMap) }, [data])
DataEffect ==
    /\ dataDirty
    /\ savedFlashcardsDetails' = FlatMapItems(pages)
    /\ dataDirty' = FALSE
    /\ UNCHANGED <<storeVars, user, env, pages, stale, pendVars, toggles, out, pre,
                   syncVars, hookVars, fetching, ops>>

(***************************************************************************)
(* Mutation coordinator: startUnsaveCountdown and its timeout callback.    *)
(***************************************************************************)
RemoveAt(s, i) == SubSeq(s, 1, i - 1) \o SubSeq(s, i + 1, Len(s))

Waiting(i) == timers[i].pc = "waiting"

\* the id setTimeout returns: one no live timer holds
FreshTimerId ==
    CHOOSE n \in 1..(Len(timers) + 1) : \A i \in 1..Len(timers) : timers[i].id # n

\* mutant: the timeout is not cleared
ClearTimeout_Noop(ts, timeoutId) == ts

\* clearTimeout(timeoutId): a callback that has not started never will
ClearTimeout(ts, timeoutId) ==
    FilterSeq(ts, {t \in Range(ts) : ~(t.id = timeoutId /\ t.pc = "waiting")})

NewTimer(flashcardId, flashcard, actionType) ==
    [id |-> FreshTimerId, flashcardId |-> flashcardId, flashcard |-> flashcard,
     actionType |-> actionType, pc |-> "waiting", uid |-> NoUser,
     savedDeleteError |-> "unset", customDeleteError |-> "unset", success |-> FALSE]

\* startUnsaveCountdown when find() returns undefined: console.error, return
StartNotFound(flashcardId) ==
    /\ ops < MaxOps
    /\ ops' = ops + 1
    /\ flashcardId \notin ItemIds(savedFlashcardsDetails)
    /\ out' = Say("notFound", flashcardId)
    /\ pre' = NoPre
    /\ UNCHANGED <<storeVars, user, env, cacheVars, stale, pendVars, toggles, syncVars, hookVars, fetching>>

\* startUnsaveCountdown: snapshot, optimistic removal, setTimeout(..., 5000),
\* setPendingUnsave, setShowCountdownToast(true)
StartFound(flashcardId, actionType) ==
    /\ ops < MaxOps
    /\ ops' = ops + 1
    /\ flashcardId \in ItemIds(savedFlashcardsDetails)
    /\ Len(timers) < MaxTimers
    /\ LET flashcard == FindById(savedFlashcardsDetails, flashcardId)
           timer == NewTimer(flashcardId, flashcard, actionType)
       IN  /\ savedFlashcardsDetails' = RemoveById(savedFlashcardsDetails, flashcardId)
           /\ pages' = RemoveFromPages(pages, flashcardId)
           /\ dataDirty' = (pages' # pages)
           /\ timers' = Append(timers, timer)
           /\ pendingUnsave' = <<[flashcardId |-> flashcardId,
                                  originalFlashcard |-> flashcard,
                                  timeoutId |-> timer.id]>>
           /\ showCountdownToast' = TRUE
           /\ out' = Say("countdown", flashcardId)
           /\ pre' = [valid |-> TRUE, flashcardId |-> flashcardId, pages |-> pages,
                      list |-> savedFlashcardsDetails, saved |-> saved,
                      custom |-> custom]
    /\ UNCHANGED <<storeVars, user, env, stale, toggles, syncVars, hookVars, fetching>>

\* the ids a caller can name: the cards shown, and those it removed and
\* whose countdown is still alive
KnownIds == ItemIds(savedFlashcardsDetails) \cup {t.flashcardId : t \in Range(timers)}

startUnsaveCountdown ==
    /\ ~dataDirty
    /\ \E flashcardId \in KnownIds :
          \/ StartNotFound(flashcardId)
          \/ \E actionType \in {"unsave", "delete"} : StartFound(flashcardId, actionType)

\* the 5000 ms elapse: timers of equal delay run oldest first; the callback
\* calls its server action
TimerFire ==
    /\ ~dataDirty
    /\ \E i \in 1..Len(timers) :
          /\ Waiting(i)
          /\ \A j \in 1..(i - 1) : ~Waiting(j)
          /\ timers' = [timers EXCEPT ![i].pc = "called"]
    /\ pre' = NoPre
    /\ UNCHANGED <<storeVars, user, env, cacheVars, stale, pendingUnsave,
                   showCountdownToast, toggles, out, syncVars, hookVars, fetching, ops>>

\* .from('saved_flashcards').delete().eq('flashcard_id', `custom_${id}`)
\*     .eq('UserID', user.id).eq('flashcard_type', 'CUSTOM')
DeleteSavedMirror(rows, customFlashcardId, uid) ==
    {r \in rows : ~(r.flashcard_id = CustomPrefixed(customFlashcardId)
                    /\ r.UserID = uid /\ r.flashcard_type = "CUSTOM")}

\* mutant: the prefixed id is passed on, and matches no row
DeleteCustomRow_KeepsPrefix(rows, customFlashcardId, uid) ==
    {c \in rows : ~(c.id = CustomPrefixed(customFlashcardId) /\ c.user_id = uid)}

\* .from('custom_flashcards').delete().eq('id', id).eq('user_id', user.id)
DeleteCustomRow(rows, customFlashcardId, uid) ==
    {c \in rows : ~(c.id = customFlashcardId /\ c.user_id = uid)}

\* mutant: the delete is filtered by the owner only
DeleteSavedById_Owner(rows, savedFlashcardId, uid) ==
    {r \in rows : r.UserID # uid}

\* .from('saved_flashcards').delete().eq('id', savedFlashcardId).eq('UserID', user.id)
DeleteSavedById(rows, savedFlashcardId, uid) ==
    {r \in rows : ~(r.id = savedFlashcardId /\ r.UserID = uid)}

\* deleteCustomFlashcard, from its entry to the end of step 1: the session
\* check, then the delete from saved_flashcards, whose error is only logged
DeleteStep1(i, ok) ==
    LET t == timers[i]
        customFlashcardId == StripCustom(t.flashcard.flashcard_id)
    IN  /\ t.pc = "called"
        /\ t.actionType = "delete"
        /\ IF user = NoUser
           THEN /\ timers' = [timers EXCEPT ![i].pc = "reply", ![i].success = FALSE]
                /\ saved' = saved
           ELSE /\ timers' = [timers EXCEPT
                                 ![i].pc = "delCustom",
                                 ![i].uid = user,
                                 ![i].savedDeleteError = IF ok THEN "null" ELSE "error"]
                /\ saved' = IF ok THEN DeleteSavedMirror(saved, customFlashcardId, user)
                            ELSE saved
        /\ UNCHANGED <<custom, now>>

\* mutant: an error of either delete fails the action
DeleteResult_Strict(savedDeleteError, customDeleteError) ==
    savedDeleteError = "null" /\ customDeleteError = "null"

\* the success flag deleteCustomFlashcard returns: savedDeleteError is logged
\* and no more, customDeleteError returns success false
DeleteResult(savedDeleteError, customDeleteError) == customDeleteError = "null"

\* deleteCustomFlashcard, step 2: the delete from custom_flashcards decides
\* the result
DeleteStep2(i, ok) ==
    LET t == timers[i]
        customFlashcardId == StripCustom(t.flashcard.flashcard_id)
    IN  /\ t.pc = "delCustom"
        /\ timers' = [timers EXCEPT
                         ![i].pc = "reply",
                         ![i].customDeleteError = IF ok THEN "null" ELSE "error",
                         ![i].success = DeleteResult(t.savedDeleteError,
                                                     IF ok THEN "null" ELSE "error")]
        /\ custom' = IF ok THEN DeleteCustomRow(custom, customFlashcardId, t.uid)
                     ELSE custom
        /\ UNCHANGED <<saved, now>>

\* unsaveAppFlashcard: the session check and the one delete
UnsaveStep(i, ok) ==
    LET t == timers[i]
    IN  /\ t.pc = "called"
        /\ t.actionType = "unsave"
        /\ IF user = NoUser
           THEN /\ timers' = [timers EXCEPT ![i].pc = "reply", ![i].success = FALSE]
                /\ saved' = saved
           ELSE /\ timers' = [timers EXCEPT
                                 ![i].pc = "reply",
                                 ![i].savedDeleteError = IF ok THEN "null" ELSE "error",
                                 ![i].success = ok]
                /\ saved' = IF ok THEN DeleteSavedById(saved, t.flashcard.id, user)
                            ELSE saved
        /\ UNCHANGED <<custom, now>>

\* one store call of a running server action, with one of the given outcomes;
\* ok = FALSE is the store's error
ServerStepWith(outcomes) ==
    /\ ~dataDirty
    /\ \E i \in 1..Len(timers), ok \in outcomes :
          \/ DeleteStep1(i, ok)
          \/ DeleteStep2(i, ok)
          \/ UnsaveStep(i, ok)
    /\ pre' = NoPre
    /\ UNCHANGED <<user, env, cacheVars, stale, pendingUnsave, showCountdownToast,
                   toggles, out, syncVars, hookVars, fetching, ops>>

ServerStep == ServerStepWith(BOOLEAN)

\* a store call that succeeds
ServerStepOk == ServerStepWith({TRUE})

\* the callback after its await: success toasts and invalidates; a failed
\* result is thrown and caught, and the card is put back; then the cleanup
ClientResult(i) ==
    LET t == timers[i]
    IN  /\ t.pc = "reply"
        /\ IF t.success
           THEN /\ out' = Say(IF t.actionType = "delete" THEN "deleted" ELSE "removed",
                              t.flashcardId)
                /\ stale' = TRUE
                /\ UNCHANGED cacheVars
           ELSE /\ savedFlashcardsDetails' =
                       RestoreToList(savedFlashcardsDetails, t.flashcard)
                /\ pages' = RestoreToPages(pages, t.flashcard)
                /\ dataDirty' = (pages' # pages)
                /\ out' = Say("failed_" \o t.actionType, t.flashcardId)
                /\ stale' = stale
        /\ showCountdownToast' = FALSE
        /\ pendingUnsave' = << >>
        /\ timers' = RemoveAt(timers, i)

CallbackResult ==
    /\ ~dataDirty
    /\ \E i \in 1..Len(timers) : ClientResult(i)
    /\ pre' = NoPre
    /\ UNCHANGED <<storeVars, user, env, toggles, syncVars, hookVars, fetching, ops>>

\* handleUndoUnsave
handleUndoUnsave ==
    /\ ops < MaxOps
    /\ ops' = ops + 1
    /\ ~dataDirty
    /\ showCountdownToast
    /\ pendingUnsave # << >>
    /\ LET p == pendingUnsave[1]
       IN  /\ timers' = ClearTimeout(timers, p.timeoutId)
           /\ savedFlashcardsDetails' =
                  RestoreToList(savedFlashcardsDetails, p.originalFlashcard)
           /\ pages' = RestoreToPages(pages, p.originalFlashcard)
           /\ dataDirty' = (pages' # pages)
           /\ out' = Say("restored", p.flashcardId)
    /\ showCountdownToast' = FALSE
    /\ pendingUnsave' = << >>
    /\ UNCHANGED <<storeVars, user, env, stale, toggles, pre, syncVars, hookVars, fetching>>

\* CountdownToast onDismiss
onDismiss ==
    /\ ops < MaxOps
    /\ ops' = ops + 1
    /\ ~dataDirty
    /\ showCountdownToast
    /\ pendingUnsave # << >>
    /\ timers' = ClearTimeout(timers, pendingUnsave[1].timeoutId)
    /\ showCountdownToast' = FALSE
    /\ pendingUnsave' = << >>
    /\ pre' = NoPre
    /\ UNCHANGED <<storeVars, user, env, cacheVars, stale, toggles, out, syncVars, hookVars, fetching>>

\* CountdownToast onComplete, after its 5 seconds: the timeout of the pending
\* card has run by then
handleCountdownComplete ==
    /\ ~dataDirty
    /\ showCountdownToast
    /\ pendingUnsave # << >>
    /\ \A i \in 1..Len(timers) :
          timers[i].id = pendingUnsave[1].timeoutId => ~Waiting(i)
    /\ showCountdownToast' = FALSE
    /\ pendingUnsave' = << >>
    /\ out' = Say("removed", pendingUnsave[1].flashcardId)
    /\ pre' = NoPre
    /\ UNCHANGED <<storeVars, user, env, cacheVars, stale, timers, toggles, syncVars, hookVars, fetching, ops>>

(***************************************************************************)
(* Mutation coordinator: handleToggleFavoriteInternal.                     *)
(***************************************************************************)
\* .update({is_favorite}).eq('id', savedCard.id).eq('UserID', user?.id || '')
UpdateFavorite(rows, savedCardId, uid, value) ==
    {IF r.id = savedCardId /\ r.UserID = uid
     THEN [r EXCEPT !.is_favorite = value] ELSE r : r \in rows}

\* mutant: the catch block writes the new value again
RevertValue_New(g) == g.newFavoriteStatus

\* the value the catch block writes back: savedCard.is_favorite
RevertValue(g) == g.prior

\* a number that tells this update from the others in flight
FreshCallId ==
    CHOOSE n \in 1..(Cardinality(toggles) + 1) : \A g \in toggles : g.call # n

\* up to the await: find the card, flip it in the list and in the pages,
\* issue the update
ToggleStart(flashcardId) ==
    /\ ops < MaxOps
    /\ ops' = ops + 1
    /\ ~dataDirty
    /\ flashcardId \in ItemIds(savedFlashcardsDetails)
    /\ Cardinality(toggles) < MaxToggles
    /\ LET savedCard == FindById(savedFlashcardsDetails, flashcardId)
           newFavoriteStatus == ~savedCard.is_favorite
       IN  /\ savedFlashcardsDetails' =
                  SetFavorite(savedFlashcardsDetails, flashcardId, newFavoriteStatus)
           /\ pages' = SetFavoriteInPages(pages, flashcardId, newFavoriteStatus)
           /\ dataDirty' = (pages' # pages)
           /\ toggles' = toggles \cup
                  {[flashcardId |-> flashcardId, savedCardId |-> savedCard.id,
                    prior |-> savedCard.is_favorite,
                    newFavoriteStatus |-> newFavoriteStatus,
                    uid |-> user, call |-> FreshCallId]}
    /\ pre' = NoPre
    /\ UNCHANGED <<storeVars, user, env, stale, pendVars, out, syncVars, hookVars, fetching>>

\* the update answered without error: invalidateQueries
ToggleOk(g) ==
    /\ ~dataDirty
    /\ g \in toggles
    /\ saved' = UpdateFavorite(saved, g.savedCardId, g.uid, g.newFavoriteStatus)
    /\ stale' = TRUE
    /\ toggles' = toggles \ {g}
    /\ pre' = NoPre
    /\ UNCHANGED <<custom, now, user, env, cacheVars, pendVars, out, syncVars, hookVars, fetching, ops>>

\* mutant: the catch block leaves the update to be tried again
ToggleFail_Retry(g) ==
    /\ ~dataDirty
    /\ g \in toggles
    /\ savedFlashcardsDetails' =
           SetFavorite(savedFlashcardsDetails, g.flashcardId, RevertValue(g))
    /\ pages' = SetFavoriteInPages(pages, g.flashcardId, RevertValue(g))
    /\ dataDirty' = (pages' # pages)
    /\ out' = Say("favFailed", g.flashcardId)
    /\ toggles' = toggles
    /\ pre' = NoPre
    /\ UNCHANGED <<storeVars, user, env, stale, pendVars, syncVars, hookVars, fetching, ops>>

\* the update failed: the catch block reverts the list and the pages and toasts
ToggleFail(g) ==
    /\ ~dataDirty
    /\ g \in toggles
    /\ savedFlashcardsDetails' =
           SetFavorite(savedFlashcardsDetails, g.flashcardId, RevertValue(g))
    /\ pages' = SetFavoriteInPages(pages, g.flashcardId, RevertValue(g))
    /\ dataDirty' = (pages' # pages)
    /\ out' = Say("favFailed", g.flashcardId)
    /\ toggles' = toggles \ {g}
    /\ pre' = NoPre
    /\ UNCHANGED <<storeVars, user, env, stale, pendVars, syncVars, hookVars, fetching, ops>>

handleToggleFavoriteInternal ==
    \/ \E flashcardId \in ItemIds(savedFlashcardsDetails) : ToggleStart(flashcardId)
    \/ \E g \in toggles : ToggleOk(g)
    \/ \E g \in toggles : ToggleFail(g)

(***************************************************************************)
(* The saved-flashcards page: one session, its cache and its countdowns.   *)
(***************************************************************************)
Next ==
    \/ FetchFirstPage
    \/ Refetch
    \/ DataEffect
    \/ startUnsaveCountdown
    \/ TimerFire
    \/ ServerStep
    \/ CallbackResult
    \/ handleUndoUnsave
    \/ onDismiss
    \/ handleCountdownComplete
    \/ handleToggleFavoriteInternal

Spec == Init /\ [][Next]_vars

(***************************************************************************)
(* The same page when no countdown is cancelled or dismissed and no store  *)
(* call of a commit fails.  Timers run out, server actions answer, the     *)
(* refetch and the effect run: each is weakly fair.                        *)
(***************************************************************************)
NextCommit ==
    \/ FetchFirstPage
    \/ Refetch
    \/ DataEffect
    \/ startUnsaveCountdown
    \/ TimerFire
    \/ ServerStepOk
    \/ CallbackResult
    \/ handleCountdownComplete
    \/ handleToggleFavoriteInternal

SpecCommit ==
    /\ Init
    /\ [][NextCommit]_vars
    /\ WF_vars(TimerFire)
    /\ WF_vars(ServerStepOk)
    /\ WF_vars(CallbackResult)
    /\ WF_vars(Refetch)
    /\ WF_vars(DataEffect)

(***************************************************************************)
(* Pagination walk: the owner holds n index rows with pairwise distinct    *)
(* saved_at, another user holds rows in between, nothing writes to the     *)
(* stores; the list is loaded page by page until hasNextPage is false.     *)
(***************************************************************************)
\* saved_at of the owner's k-th row: increasing in k, never NoCursor
WalkSavedAt(k) == 3 * k - (k % 3)

\* the owner's k-th row: every seventh one an APP flashcard, the others mirrors
\* of custom flashcards
WalkRow(k) ==
    IF k % 7 = 0
    THEN SavedRow(k, "u1", AppId(k), "APP", WalkSavedAt(k), FALSE)
    ELSE SavedRow(k, "u1", CustomPrefixed(CustomId(k)), "CUSTOM", WalkSavedAt(k),
                  k % 2 = 0)

\* rows of another user, some with the saved_at of one of the owner's rows
OtherRows(n) ==
    {SavedRow(MaxRows + 1 + k, "u2", AppId(k), "APP", WalkSavedAt(k) + (k % 2), FALSE)
        : k \in {j \in 1..n : j % 5 = 1}}

InitPage ==
    /\ \E n \in 0..MaxRows : saved = {WalkRow(k) : k \in 1..n} \cup OtherRows(n)
    /\ custom = InitCustom
    /\ now = 3 * MaxRows + 1
    /\ user = "u1"
    /\ \E up \in BOOLEAN :
          env = [remote |-> {AppId(7)}, remoteUp |-> up, detailsUp |-> TRUE]
    /\ InitClient

NextPage ==
    \/ FetchFirstPage
    \/ FetchNextPage
    \/ DataEffect

SpecPage == InitPage /\ [][NextPage]_vars

(***************************************************************************)
(* Synchronisation of custom flashcards into saved_flashcards.  The caller *)
(* is checkAndSyncFlashcards; checkSyncStatus and                          *)
(* syncCustomFlashcardsToSaved live in flashcardSyncService and follow the *)
(* engine's description: count the owner's ACTIVE custom flashcards        *)
(* without an index row of type CUSTOM; create one index row for each of   *)
(* them with saved_at = now, a uniqueness collision being absorbed and not *)
(* counted.                                                                *)
(***************************************************************************)
\* mutant: the status of the custom flashcard is not looked at
Unmirrored_AnyStatus(uid) ==
    LET customIds == {c.id : c \in {c \in custom : c.user_id = uid}}
        savedIds == {r.flashcard_id : r \in {r \in saved : r.UserID = uid
                                               /\ r.flashcard_type = "CUSTOM"}}
    IN  {cid \in customIds : CustomPrefixed(cid) \notin savedIds}

\* the owner's ACTIVE custom flashcards without an index row
Unmirrored(uid) ==
    LET customIds == {c.id : c \in {c \in custom : c.user_id = uid
                                                     /\ c.status = "ACTIVE"}}
        savedIds == {r.flashcard_id : r \in {r \in saved : r.UserID = uid
                                               /\ r.flashcard_type = "CUSTOM"}}
    IN  {cid \in customIds : CustomPrefixed(cid) \notin savedIds}

\* checkSyncStatus(userId) -> {needsSync, unsyncedCount}
checkSyncStatus(uid) ==
    LET unsyncedCount == Cardinality(Unmirrored(uid))
    IN  [needsSync |-> unsyncedCount > 0, unsyncedCount |-> unsyncedCount]

\* the id the database gives a new row
FreshSavedId ==
    IF saved = {} THEN 1
    ELSE 1 + (CHOOSE m \in {r.id : r \in saved} : \A r \in saved : r.id <= m)

\* the index row of a custom flashcard: is_favorite false, saved_at now
MirrorRow(uid, cid) ==
    SavedRow(FreshSavedId, uid, CustomPrefixed(cid), "CUSTOM", now, FALSE)

\* mutant: the table has no unique constraint
UniqueViolation_Never(rows, row) == FALSE

\* unique (UserID, flashcard_id, flashcard_type): error code 23505
UniqueViolation(rows, row) ==
    \E r \in rows : /\ r.UserID = row.UserID
                    /\ r.flashcard_id = row.flashcard_id
                    /\ r.flashcard_type = row.flashcard_type

\* mutant: the insert is answered but the row is not stored
InsertRow_Lost(rows, row) == rows

\* .from('saved_flashcards').insert(row)
InsertRow(rows, row) == rows \cup {row}

\* mutant: a collision is counted as a newly synced row
SyncedAfter_CountsAll(synced, collided) == synced + 1

\* the count of newly synced rows after one insert
SyncedAfter(synced, collided) == IF collided THEN synced ELSE synced + 1

NoResult == << >>

\* an invocation: pc, todo, synced and result are the program's; after,
\* wrote (a row was inserted), collided and storeError are history
NewProc ==
    [pc |-> "check", todo |-> {}, synced |-> 0, result |-> NoResult,
     after |-> FALSE, wrote |-> FALSE, collided |-> FALSE, storeError |-> FALSE]

SyncUnchanged ==
    UNCHANGED <<user, env, cacheVars, stale, pendVars, toggles, out, pre, ops,
                hookVars, fetching>>

\* the loadData effect runs (again): if (isAuthenticated && user) loadData()
loadData ==
    /\ user # NoUser
    /\ Len(procs) < MaxProcs
    /\ procs' = Append(procs, NewProc)
    /\ UNCHANGED <<storeVars, syncStatus>>
    /\ SyncUnchanged

\* const status = await checkSyncStatus(user.id); setSyncStatus(status);
\* if (status.needsSync && status.unsyncedCount > 0) ... else 'already synchronized'
SyncCheck(p) ==
    /\ procs[p].pc = "check"
    /\ LET status == checkSyncStatus(user)
       IN  /\ syncStatus' = status
           /\ procs' = [procs EXCEPT ![p].pc =
                            IF status.needsSync /\ status.unsyncedCount > 0
                            THEN "sync" ELSE "done"]
    /\ UNCHANGED storeVars
    /\ SyncUnchanged

\* syncCustomFlashcardsToSaved(user.id) reads the flashcards to mirror
SyncRead(p) ==
    /\ procs[p].pc = "sync"
    /\ procs' = [procs EXCEPT
                    ![p].pc = "insert",
                    ![p].todo = Unmirrored(user),
                    ![p].after = \E q \in 1..Len(procs) :
                                    /\ q # p
                                    /\ procs[q].result # NoResult
                                    /\ procs[q].result.success]
    /\ UNCHANGED <<storeVars, syncStatus>>
    /\ SyncUnchanged

\* the flashcards are handled in the order the query returned them: by id
NextTodo(todo) == CHOOSE cid \in todo : \A other \in todo : cid.key <= other.key

\* one insert of the sync; a collision is absorbed and not counted
SyncInsert(p) ==
    /\ procs[p].pc = "insert"
    /\ procs[p].todo # {}
    /\ \E cid \in {NextTodo(procs[p].todo)} :
          LET row == MirrorRow(user, cid)
              collided == UniqueViolation(saved, row)
          IN  /\ saved' = IF collided THEN saved ELSE InsertRow(saved, row)
              /\ procs' = [procs EXCEPT
                              ![p].todo = @ \ {cid},
                              ![p].synced = SyncedAfter(@, collided),
                              ![p].wrote = @ \/ saved' # saved,
                              ![p].collided = @ \/ collided]
    /\ UNCHANGED <<custom, now, syncStatus>>
    /\ SyncUnchanged

\* an insert fails for another reason: the sync returns {success: false};
\* the caller logs 'Sync failed'
SyncInsertError(p) ==
    /\ procs[p].pc = "insert"
    /\ procs[p].todo # {}
    /\ procs' = [procs EXCEPT
                    ![p].pc = "done",
                    ![p].storeError = TRUE,
                    ![p].result = [success |-> FALSE, synced |-> procs[p].synced]]
    /\ UNCHANGED <<storeVars, syncStatus>>
    /\ SyncUnchanged

\* the sync returns {success: true, synced}; if (result.synced > 0) the caller
\* checks the status again, else 'already synchronized'
SyncReturn(p) ==
    /\ procs[p].pc = "insert"
    /\ procs[p].todo = {}
    /\ procs' = [procs EXCEPT
                    ![p].pc = IF procs[p].synced > 0 THEN "recheck" ELSE "done",
                    ![p].result = [success |-> TRUE, synced |-> procs[p].synced]]
    /\ UNCHANGED <<storeVars, syncStatus>>
    /\ SyncUnchanged

\* const newStatus = await checkSyncStatus(user.id); setSyncStatus(newStatus)
SyncRecheck(p) ==
    /\ procs[p].pc = "recheck"
    /\ syncStatus' = checkSyncStatus(user)
    /\ procs' = [procs EXCEPT ![p].pc = "done"]
    /\ UNCHANGED storeVars
    /\ SyncUnchanged

\* the owner's custom flashcards: 1..MaxCustom ACTIVE and one that is not,
\* each mirrored or not; another user's flashcard, not mirrored; an APP row
InitSync ==
    /\ \E mirrored \in SUBSET (1..(MaxCustom + 1)) :
          /\ custom = {CustomRow(CustomId(k), "u1", "ACTIVE") : k \in 1..MaxCustom}
                      \cup {CustomRow(CustomId(MaxCustom + 1), "u1", "INACTIVE"),
                            CustomRow(CustomId(MaxCustom + 2), "u2", "ACTIVE")}
          /\ saved = {SavedRow(k, "u1", CustomPrefixed(CustomId(k)), "CUSTOM", 1, FALSE)
                         : k \in mirrored}
                     \cup {SavedRow(MaxCustom + 2, "u1", AppId(1), "APP", 2, FALSE)}
    /\ now = 3
    /\ user = "u1"
    /\ env = [remote |-> {AppId(1)}, remoteUp |-> TRUE, detailsUp |-> TRUE]
    /\ pages = << >>
    /\ savedFlashcardsDetails = << >>
    /\ dataDirty = FALSE
    /\ stale = FALSE
    /\ pendingUnsave = << >>
    /\ showCountdownToast = FALSE
    /\ timers = << >>
    /\ toggles = {}
    /\ out = Say("none", 0)
    /\ pre = [NoPre EXCEPT !.valid = TRUE, !.saved = saved, !.custom = custom]
    /\ procs = << >>
    /\ syncStatus = << >>
    /\ ops = 0
    /\ InitHook

NextSync ==
    \/ loadData
    \/ \E p \in 1..Len(procs) : SyncCheck(p)
    \/ \E p \in 1..Len(procs) : SyncRead(p)
    \/ \E p \in 1..Len(procs) : SyncInsert(p)
    \/ \E p \in 1..Len(procs) : SyncInsertError(p)
    \/ \E p \in 1..Len(procs) : SyncReturn(p)
    \/ \E p \in 1..Len(procs) : SyncRecheck(p)

SpecSync == InitSync /\ [][NextSync]_vars

(***************************************************************************)
(* useSavedFlashcards: the set of saved APP flashcards of a browse page,   *)
(* loaded on mount, and toggleSave.                                        *)
(***************************************************************************)
\* .select('flashcard_id').eq('UserID', user.id).eq('flashcard_type', 'APP')
SavedAppIds(rows, uid) ==
    {r.flashcard_id : r \in {r \in rows : r.UserID = uid /\ r.flashcard_type = "APP"}}

\* the browse page mounts (again): useState(new Set()), then loadSavedCards:
\* no user, return; on error the localStorage copy, if any; else the ids
\* read, copied to localStorage
loadSavedCards ==
    /\ ops < MaxOps
    /\ ops' = ops + 1
    /\ saves = << >>
    /\ IF user = NoUser
       THEN /\ savedCards' = {}
            /\ UNCHANGED <<stored, out>>
       ELSE \E ok \in BOOLEAN :
              IF ok
              THEN /\ savedCards' = SavedAppIds(saved, user)
                   /\ stored' = Entry(SavedAppIds(saved, user))
                   /\ out' = Say("loaded", 0)
              ELSE /\ savedCards' = IF stored.has THEN stored.ids ELSE {}
                   /\ stored' = stored
                   /\ out' = Say("loadFailed", 0)
    /\ UNCHANGED <<storeVars, user, env, cacheVars, stale, pendVars, toggles, pre,
                   syncVars, saves, fetching>>

\* the APP flashcards a browse page shows
BrowseIds == {AppId(1), AppId(2)}

\* toggleSave without a session: toast.error('Please log in ...'), return
ToggleSaveNoUser(flashcardId) ==
    /\ user = NoUser
    /\ ops < MaxOps
    /\ ops' = ops + 1
    /\ out' = Say("loginRequired", flashcardId.key)
    /\ UNCHANGED <<storeVars, user, env, cacheVars, stale, pendVars, toggles, pre,
                   syncVars, hookVars, fetching>>

\* toggleSave up to its await: isSaved = savedCards.has(flashcardId), then the
\* delete or the insert is sent
ToggleSaveStart(flashcardId) ==
    /\ user # NoUser
    /\ ops < MaxOps
    /\ ops' = ops + 1
    /\ Len(saves) < MaxSaves
    /\ saves' = Append(saves, [flashcardId |-> flashcardId, uid |-> user,
                               isSaved |-> flashcardId \in savedCards,
                               pc |-> "call", result |-> "unset"])
    /\ UNCHANGED <<storeVars, user, env, cacheVars, stale, pendVars, toggles, out, pre,
                   syncVars, savedCards, stored, fetching>>

\* mutant: the delete is not filtered by the owner
DeleteSavedApp_AnyOwner(rows, uid, flashcardId) ==
    {r \in rows : ~(r.flashcard_id = flashcardId /\ r.flashcard_type = "APP")}

\* .delete().eq('UserID', user.id).eq('flashcard_id', flashcardId)
\*     .eq('flashcard_type', 'APP')
DeleteSavedApp(rows, uid, flashcardId) ==
    {r \in rows : ~(r.UserID = uid /\ r.flashcard_id = flashcardId
                    /\ r.flashcard_type = "APP")}

\* .insert({UserID, flashcard_id, flashcard_type: 'APP', saved_at: now,
\*          is_favorite: false, ...})
AppRow(uid, flashcardId) ==
    SavedRow(FreshSavedId, uid, flashcardId, "APP", now, FALSE)

\* the store runs the delete or the insert of call i; ok = FALSE is an error
\* other than the unique violation
SaveStore(i, ok) ==
    LET s == saves[i]
        row == AppRow(s.uid, s.flashcardId)
    IN  /\ s.pc = "call"
        /\ IF ~ok
           THEN /\ saved' = saved
                /\ saves' = [saves EXCEPT ![i].pc = "reply", ![i].result = "error"]
           ELSE IF s.isSaved
           THEN /\ saved' = DeleteSavedApp(saved, s.uid, s.flashcardId)
                /\ saves' = [saves EXCEPT ![i].pc = "reply", ![i].result = "deleted"]
           ELSE IF UniqueViolation(saved, row)
           THEN /\ saved' = saved
                /\ saves' = [saves EXCEPT ![i].pc = "reply", ![i].result = "23505"]
           ELSE /\ saved' = InsertRow(saved, row)
                /\ saves' = [saves EXCEPT ![i].pc = "reply", ![i].result = "inserted"]
        /\ UNCHANGED <<custom, now, user, env, cacheVars, stale, pendVars, toggles, out,
                       pre, syncVars, ops, savedCards, stored, fetching>>

\* mutant: the 23505 branch returns without touching the set
AfterDuplicate_Same(cards, flashcardId) == cards

\* insertError.code === '23505': next.add(flashcardId)
AfterDuplicate(cards, flashcardId) == cards \cup {flashcardId}

\* toggleSave after its await
SaveReply(i) ==
    LET s == saves[i]
    IN  /\ s.pc = "reply"
        /\ saves' = RemoveAt(saves, i)
        /\ IF s.result = "error"
           THEN /\ out' = Say(IF s.isSaved THEN "unsaveFailed" ELSE "saveFailed",
                              s.flashcardId.key)
                /\ UNCHANGED <<savedCards, stored>>
           ELSE IF s.result = "deleted"
           THEN /\ savedCards' = savedCards \ {s.flashcardId}
                /\ stored' = Entry(savedCards')
                /\ out' = Say("unsaved", s.flashcardId.key)
           ELSE IF s.result = "23505"
           THEN /\ savedCards' = AfterDuplicate(savedCards, s.flashcardId)
                /\ stored' = stored
                /\ out' = Say("alreadySaved", s.flashcardId.key)
           ELSE /\ savedCards' = savedCards \cup {s.flashcardId}
                /\ stored' = Entry(savedCards')
                /\ out' = Say("saved", s.flashcardId.key)
        /\ UNCHANGED <<storeVars, user, env, cacheVars, stale, pendVars, toggles, pre,
                       syncVars, ops, fetching>>

toggleSave ==
    \/ \E flashcardId \in BrowseIds : ToggleSaveNoUser(flashcardId)
    \/ \E flashcardId \in BrowseIds : ToggleSaveStart(flashcardId)
    \/ \E i \in 1..Len(saves), ok \in BOOLEAN : SaveStore(i, ok)
    \/ \E i \in 1..Len(saves) : SaveReply(i)

\* the browse page alone: the set is loaded, flashcards are saved and
\* unsaved, up to MaxSaves calls at a time
NextHook ==
    \/ loadSavedCards
    \/ \E flashcardId \in BrowseIds : ToggleSaveStart(flashcardId)
    \/ \E i \in 1..Len(saves), ok \in BOOLEAN : SaveStore(i, ok)
    \/ \E i \in 1..Len(saves) : SaveReply(i)

SpecHook == Init /\ [][NextHook]_vars

(***************************************************************************)
(* Every writer of saved_flashcards at once: toggleSave on a browse page,  *)
(* the sync up to its return, and the unsave and delete commits of the     *)
(* saved page.  The store calls succeed or collide; a call that fails for  *)
(* another reason writes nothing.                                          *)
(***************************************************************************)
\* the first run of the loadData effect
loadDataFirst == procs = << >> /\ loadData

NextSave ==
    \/ loadSavedCards
    \/ \E flashcardId \in BrowseIds : ToggleSaveStart(flashcardId)
    \/ \E i \in 1..Len(saves) : SaveStore(i, TRUE)
    \/ \E i \in 1..Len(saves) : SaveReply(i)
    \/ loadDataFirst
    \/ \E p \in 1..Len(procs) : SyncCheck(p)
    \/ \E p \in 1..Len(procs) : SyncRead(p)
    \/ \E p \in 1..Len(procs) : SyncInsert(p)
    \/ \E p \in 1..Len(procs) : SyncReturn(p)
    \/ FetchFirstPage
    \/ DataEffect
    \/ startUnsaveCountdown
    \/ TimerFire
    \/ ServerStepOk
    \/ CallbackResult

SpecSave == Init /\ [][NextSave]_vars

(***************************************************************************)
(* fetchSavedFlashcardsPage step by step: the index query, the race of the *)
(* content service against the 5 s timer, the custom details lookup, the   *)
(* join.                                                                   *)
(***************************************************************************)
\* savedCards.filter(card => card.flashcard_type === 'APP').map(card => card.flashcard_id)
AppIdsOf(items) ==
    {r.flashcard_id : r \in {r \in Range(items) : r.flashcard_type = "APP"}}

\* savedCards.filter(... === 'CUSTOM').map(card => card.flashcard_id.replace('custom_', ''))
CustomIdsOf(items) ==
    {StripCustom(r.flashcard_id) : r \in {r \in Range(items) : r.flashcard_type = "CUSTOM"}}

\* a call under way: the index rows read, how the race ended, the details
\* found, and the page returned
Fetching(pc, items, nextCursor, remote, app, customDetails, page) ==
    [pc |-> pc, items |-> items, nextCursor |-> nextCursor, remote |-> remote,
     app |-> app, customDetails |-> customDetails, page |-> page]

NoPage == [items |-> << >>, nextCursor |-> NoCursor]

\* return { items: savedFlashcardsWithDetails, nextCursor }
Joined(f, remote, app, customDetails) ==
    Fetching("done", f.items, f.nextCursor, remote, app, customDetails,
             [items |-> EnrichAll(f.items, app, customDetails),
              nextCursor |-> f.nextCursor])

\* after the race: the custom lookup if there are CUSTOM rows, else the join
AfterRemote(f, remote, app) ==
    IF CustomIdsOf(f.items) = {}
    THEN Joined(f, remote, app, {})
    ELSE [f EXCEPT !.pc = "custom", !.remote = remote, !.app = app]

FetchUnchanged ==
    UNCHANGED <<storeVars, user, env, cacheVars, stale, pendVars, toggles, out, pre,
                syncVars, ops, hookVars>>

\* getSavedFlashcardsPaginated answers
FetchIndex ==
    /\ fetching.pc = "none"
    /\ user # NoUser
    /\ \E res \in getSavedFlashcardsPaginated(saved, user, NoCursor) :
          LET f == Fetching("remote", res.items, res.nextCursor, "pending", {}, {},
                            NoPage)
          IN  fetching' =
                 IF Len(res.items) = 0
                 THEN [f EXCEPT !.pc = "done", !.remote = "skipped"]
                 ELSE IF AppIdsOf(res.items) = {}
                 THEN AfterRemote(f, "skipped", {})
                 ELSE f
    /\ FetchUnchanged

\* getSavedFlashcardsPaginated throws; fetchSavedFlashcardsPage rethrows
FetchIndexError ==
    /\ fetching.pc = "none"
    /\ fetching' = Fetching("failed", << >>, NoCursor, "skipped", {}, {}, NoPage)
    /\ FetchUnchanged

\* getFlashcardDetailsByIds answers before the timer: the records the
\* content service holds among the ids asked for
RemoteAnswer ==
    /\ fetching.pc = "remote"
    /\ env.remoteUp
    /\ fetching' = AfterRemote(fetching, "answered",
                               AppIdsOf(fetching.items) \cap env.remote)
    /\ FetchUnchanged

\* mutant: the error of the content service is thrown on
OnRemoteError_Rethrow(f) == [f EXCEPT !.pc = "failed", !.remote = "error"]

\* catch (err): flashcardDetails = []
OnRemoteError(f) == AfterRemote(f, "error", {})

\* getFlashcardDetailsByIds throws before the timer (status not ok, network)
RemoteError ==
    /\ fetching.pc = "remote"
    /\ ~env.remoteUp
    /\ fetching' = OnRemoteError(fetching)
    /\ FetchUnchanged

\* mutant: no timer in the race
RaceArmed_Never(f) == FALSE

\* Promise.race([..., timeoutPromise]): the timer runs while the call waits
RaceArmed(f) == f.pc = "remote"

\* setTimeout(() => reject(...), 5000) fires first; caught like an error
RemoteTimeout ==
    /\ RaceArmed(fetching)
    /\ fetching' = AfterRemote(fetching, "timeout", {})
    /\ FetchUnchanged

\* getCustomFlashcardsByIds answers or throws (caught), then the join
CustomLookup ==
    /\ fetching.pc = "custom"
    /\ \E c \in CustomResponses(CustomIdsOf(fetching.items)) :
          fetching' = Joined(fetching, fetching.remote, fetching.app, c)
    /\ FetchUnchanged

\* the rows and the services a page may meet
FetchRows ==
    { SavedRow(1, "u1", AppId(1), "APP", 4, FALSE),
      SavedRow(2, "u1", AppId(2), "APP", 3, TRUE),
      SavedRow(3, "u1", CustomPrefixed(CustomId(1)), "CUSTOM", 3, FALSE),
      SavedRow(4, "u1", CustomPrefixed(CustomId(2)), "CUSTOM", 1, FALSE),
      SavedRow(6, "u1", CustomPrefixed(CustomId(3)), "CUSTOM", 2, FALSE) }

InitFetch ==
    /\ \E rows \in SUBSET FetchRows :
          saved = rows \cup {SavedRow(5, "u2", AppId(1), "APP", 2, FALSE)}
    /\ \E cs \in SUBSET {CustomRow(CustomId(1), "u1", "ACTIVE"),
                         CustomRow(CustomId(2), "u1", "INACTIVE")} :
          custom = cs \cup {CustomRow(CustomId(3), "u2", "ACTIVE")}
    /\ now = 5
    /\ user = "u1"
    /\ \E remote \in SUBSET {AppId(1), AppId(2)}, remoteUp \in BOOLEAN,
          detailsUp \in BOOLEAN :
          env = [remote |-> remote, remoteUp |-> remoteUp, detailsUp |-> detailsUp]
    /\ InitClient

NextFetch ==
    \/ FetchIndex
    \/ FetchIndexError
    \/ RemoteAnswer
    \/ RemoteError
    \/ RemoteTimeout
    \/ CustomLookup

SpecFetch == InitFetch /\ [][NextFetch]_vars

\* the timer of the race fires; the custom details lookup, a query of the
\* database that has just answered the index query, is answered
SpecFetchLive ==
    InitFetch /\ [][NextFetch]_vars /\ WF_vars(RemoteTimeout) /\ WF_vars(CustomLookup)

(***************************************************************************)
(* The session ends while the pages are open: useAuth() and                *)
(* supabase.auth.getUser() return no user from then on.                    *)
(***************************************************************************)
SignOut ==
    /\ user # NoUser
    /\ user' = NoUser
    /\ UNCHANGED <<storeVars, env, cacheVars, stale, pendVars, toggles, out, pre,
                   syncVars, ops, hookVars, fetching>>

\* getSavedFlashcardsPaginated without a user: throw new Error('User not
\* authenticated'), before the query is built
FetchNoUser ==
    /\ fetching.pc = "none"
    /\ user = NoUser
    /\ fetching' = Fetching("failed", << >>, NoCursor, "skipped", {}, {}, NoPage)
    /\ FetchUnchanged

NextAuth ==
    \/ SignOut
    \/ FetchFirstPage
    \/ FetchNoUser
    \/ DataEffect
    \/ startUnsaveCountdown
    \/ TimerFire
    \/ ServerStep
    \/ CallbackResult
    \/ handleToggleFavoriteInternal
    \/ toggleSave

SpecAuth == Init /\ [][NextAuth]_vars

(***************************************************************************)
(* Properties of the undo, the commit and the favourite toggle.            *)
(***************************************************************************)
CachedIds == ItemIds(savedFlashcardsDetails) \cup ItemIds(FlatMapItems(pages))

SavedIds == {r.id : r \in saved}

CustomIds == {c.id : c \in custom}

\* C1: startUnsaveCountdown directly followed by handleUndoUnsave (the
\* countdown still running) leaves the pages and the flattened list as they
\* were before the request, the restored card at its old place, and both
\* tables untouched.
C1_UndoRoundTrip ==
    (out.kind = "restored" /\ pre.valid /\ out.id = pre.flashcardId /\ ~dataDirty) =>
        /\ pages = pre.pages
        /\ savedFlashcardsDetails = pre.list
        /\ saved = pre.saved
        /\ custom = pre.custom

\* the session owner's rows at the start, and the flashcard_id of each
OwnRowIds == {r.id : r \in {r \in InitSaved : r.UserID = "u1"}}

FlashcardIdOf(id) == (CHOOSE r \in InitSaved : r.id = id).flashcard_id

\* a countdown or commit is under way for the card, in a mode legal for it
\* ('delete' is for CUSTOM cards)
CommitUnderWay(id, mode) ==
    \E i \in 1..Len(timers) :
        /\ timers[i].flashcardId = id
        /\ timers[i].actionType = mode
        /\ mode = "delete" => timers[i].flashcard.flashcard_type = "CUSTOM"

Committed(id, mode) ==
    /\ id \notin SavedIds
    /\ id \notin CachedIds
    /\ ~dataDirty
    /\ mode = "delete" => StripCustom(FlashcardIdOf(id)) \notin CustomIds

\* C2: a countdown that is not cancelled, with every store call of the
\* commit succeeding, ends with the card's saved_flashcards row gone and the
\* card out of the list and the pages; after a 'delete' of a CUSTOM card its
\* custom_flashcards row is gone too.
C2_Commit ==
    \A id \in OwnRowIds : \A mode \in {"unsave", "delete"} :
        [](CommitUnderWay(id, mode) => <>Committed(id, mode))

\* C2 witness: the 'delete' of CUSTOM card 2 has been committed and reported.
C2_Witness ==
    /\ out = Say("deleted", 2)
    /\ Committed(2, "delete")
    /\ timers = << >>

\* C3: when the delete from custom_flashcards fails in a 'delete' commit, the
\* callback puts the card back into the list, reports the failure, and
\* neither the custom_flashcards row nor its saved_flashcards row is gone.
C3_DeleteRollback ==
    [][\A i \in 1..Len(timers) :
          (/\ timers[i].pc = "reply"
           /\ timers[i].actionType = "delete"
           /\ timers[i].flashcard.flashcard_type = "CUSTOM"
           /\ timers[i].customDeleteError = "error"
           /\ ~dataDirty
           /\ ClientResult(i))
          => /\ timers[i].flashcardId \in ItemIds(savedFlashcardsDetails')
             /\ out' = Say("failed_delete", timers[i].flashcardId)
             /\ timers[i].flashcard.id \in {r.id : r \in saved'}
             /\ StripCustom(timers[i].flashcard.flashcard_id) \in {c.id : c \in custom'}
      ]_vars

\* C4: in a 'delete' commit the saved_flashcards delete is attempted only
\* once the custom_flashcards delete has been attempted and has succeeded.
C4_ContentDeleteFirst ==
    \A i \in 1..Len(timers) :
        (/\ timers[i].actionType = "delete"
         /\ timers[i].flashcard.flashcard_type = "CUSTOM"
         /\ timers[i].savedDeleteError # "unset")
            => timers[i].customDeleteError = "null"

\* the countdowns of a card that are still within their 5 seconds
TimersOf(flashcardId) ==
    {i \in 1..Len(timers) : timers[i].flashcardId = flashcardId /\ Waiting(i)}

\* C5: no card has two countdowns running at once, and startUnsaveCountdown on
\* a card whose countdown is running changes neither the cache, the pending
\* state, the timers nor the tables.
C5_OnePendingPerItem ==
    /\ [](\A i \in 1..Len(timers) : Cardinality(TimersOf(timers[i].flashcardId)) <= 1)
    /\ [][\A f \in KnownIds :
            (/\ TimersOf(f) # {}
             /\ ~dataDirty
             /\ \/ StartNotFound(f)
                \/ \E a \in {"unsave", "delete"} : StartFound(f, a))
            => UNCHANGED <<storeVars, cacheVars, pendVars>>
        ]_vars

\* C6: handleToggleFavoriteInternal flips is_favorite of the card in the list
\* and the pages at once; when the update fails, the card's is_favorite in
\* the list and the pages is the value from before the call again, every
\* other card is as it was, saved_flashcards is unchanged and the failure
\* is toasted.
FavoriteIs(items, flashcardId, value) ==
    \A i \in 1..Len(items) : items[i].id = flashcardId => items[i].is_favorite = value

SameExceptFavoriteOf(items2, items1, flashcardId) ==
    /\ Len(items2) = Len(items1)
    /\ \A i \in 1..Len(items1) :
          IF items1[i].id = flashcardId
          THEN items2[i] = [items1[i] EXCEPT !.is_favorite = items2[i].is_favorite]
          ELSE items2[i] = items1[i]

C6_ToggleRollback ==
    [][/\ \A f \in ItemIds(savedFlashcardsDetails) :
            ToggleStart(f) =>
                LET before == FindById(savedFlashcardsDetails, f).is_favorite
                IN  /\ FavoriteIs(savedFlashcardsDetails', f, ~before)
                    /\ FavoriteIs(FlatMapItems(pages'), f, ~before)
                    /\ \E g \in toggles' : g.flashcardId = f /\ g.prior = before
       /\ \A g \in toggles :
            ToggleFail(g) =>
                /\ FavoriteIs(savedFlashcardsDetails', g.flashcardId, g.prior)
                /\ FavoriteIs(FlatMapItems(pages'), g.flashcardId, g.prior)
                /\ SameExceptFavoriteOf(savedFlashcardsDetails', savedFlashcardsDetails,
                                        g.flashcardId)
                /\ SameExceptFavoriteOf(FlatMapItems(pages'), FlatMapItems(pages),
                                        g.flashcardId)
                /\ saved' = saved
                /\ out' = Say("favFailed", g.flashcardId)
      ]_vars

\* C6 witness: a failed update has just been reverted for a card that is in
\* the list beside another card, and the list shows what the table holds.
C6_Witness ==
    /\ out.kind = "favFailed"
    /\ ~dataDirty
    /\ toggles = {}
    /\ Len(savedFlashcardsDetails) >= 2
    /\ \E i \in 1..Len(savedFlashcardsDetails) :
          /\ savedFlashcardsDetails[i].id = out.id
          /\ \E r \in saved : /\ r.id = out.id
                              /\ r.is_favorite = savedFlashcardsDetails[i].is_favorite

(***************************************************************************)
(* Pagination.                                                             *)
(***************************************************************************)
\* the list has been loaded to its end
WalkDone == pages # << >> /\ ~hasNextPage

OwnRows == {r \in saved : r.UserID = user}

\* C7: with pairwise distinct saved_at and no write between the fetches, the
\* pages fetched by following nextCursor to the end hold exactly the owner's
\* rows, each once, in strictly descending saved_at, and the flattened list is
\* their concatenation.
C7_PaginationComplete ==
    WalkDone =>
        LET all == FlatMapItems(pages)
        IN  /\ Len(all) = Cardinality(OwnRows)
            /\ ItemIds(all) = {r.id : r \in OwnRows}
            /\ \A i \in 1..Len(all) :
                  \E r \in OwnRows : /\ r.id = all[i].id
                                     /\ r.saved_at = all[i].saved_at
                                     /\ r.flashcard_id = all[i].flashcard_id
            /\ \A i \in 1..(Len(all) - 1) : all[i].saved_at > all[i + 1].saved_at
            /\ ~dataDirty => savedFlashcardsDetails = all

\* C7 witness: a walk of three pages, more than two full pages of rows.
C7_Witness ==
    /\ WalkDone
    /\ ~dataDirty
    /\ Len(pages) = 3
    /\ Len(savedFlashcardsDetails) > 2 * limit
    /\ Len(savedFlashcardsDetails) = Cardinality(OwnRows)

(***************************************************************************)
(* Synchronisation.                                                        *)
(***************************************************************************)
Returned(p) == procs[p].result # NoResult

\* C8: a sync that starts after another one has returned success, the custom
\* flashcards being left alone in between, reports synced = 0 and leaves
\* saved_flashcards as it found it.
C8_SyncIdempotent ==
    \A p \in 1..Len(procs) :
        (procs[p].after /\ Returned(p)) =>
            /\ procs[p].result = [success |-> TRUE, synced |-> 0]
            /\ ~procs[p].wrote

\* C8 witness: a first sync mirrored something, a second one ran after it
\* and has returned.
C8_Witness ==
    \E p, q \in 1..Len(procs) :
        /\ p # q
        /\ Returned(q) /\ procs[q].result.success /\ procs[q].result.synced > 0
        /\ procs[p].after /\ Returned(p)

\* the owner's custom flashcards that were unmirrored at the start
Unmirrored0 ==
    {c.id : c \in {c \in pre.custom :
                      /\ c.user_id = user
                      /\ c.status = "ACTIVE"
                      /\ ~\E r \in pre.saved : /\ r.UserID = user
                                               /\ r.flashcard_type = "CUSTOM"
                                               /\ r.flashcard_id = CustomPrefixed(c.id)}}

MirrorsOf(cid) ==
    {r \in saved : /\ r.UserID = user
                   /\ r.flashcard_type = "CUSTOM"
                   /\ r.flashcard_id = CustomPrefixed(cid)}

RECURSIVE SumSynced(_)
SumSynced(n) ==
    IF n = 0 THEN 0
    ELSE SumSynced(n - 1) + (IF Returned(n) THEN procs[n].result.synced ELSE 0)

AllDone == \A p \in 1..Len(procs) : procs[p].pc = "done"

NoStoreError == \A p \in 1..Len(procs) : ~procs[p].storeError

\* C9: when two or more invocations have run to their end in any
\* interleaving and no insert failed for another reason than a collision,
\* every sync returned success, each flashcard unmirrored at the start has
\* exactly one index row, and the synced counts add up to the number of
\* flashcards unmirrored at the start.
C9_ConcurrentSync ==
    (Len(procs) >= 2 /\ AllDone /\ NoStoreError) =>
        /\ \A p \in 1..Len(procs) : Returned(p) => procs[p].result.success
        /\ \A cid \in Unmirrored0 : Cardinality(MirrorsOf(cid)) = 1
        /\ SumSynced(Len(procs)) = Cardinality(Unmirrored0)

\* C9 witness: two syncs interleaved, both mirrored something and one of them
\* ran into a collision.
C9_Witness ==
    /\ Len(procs) >= 2 /\ AllDone /\ NoStoreError
    /\ \E p, q \in 1..Len(procs) :
          /\ p # q
          /\ Returned(p) /\ procs[p].result.synced > 0 /\ procs[p].collided
          /\ Returned(q) /\ procs[q].result.synced > 0

\* the number of the owner's ACTIVE custom flashcards without an index row of
\* type CUSTOM
UnsyncedCountOf(uid) ==
    Cardinality({c \in custom :
                    /\ c.user_id = uid
                    /\ c.status = "ACTIVE"
                    /\ ~\E r \in saved : /\ r.UserID = uid
                                         /\ r.flashcard_type = "CUSTOM"
                                         /\ r.flashcard_id = CustomPrefixed(c.id)})

\* C10: checkSyncStatus reports as unsyncedCount the number of the owner's
\* ACTIVE custom flashcards without an index row of type CUSTOM, and
\* needsSync exactly when that number is positive; the status read after a
\* sync that returned success is unsyncedCount 0, needsSync false.
C10_SyncStatus ==
    [][\A p \in 1..Len(procs) :
          /\ SyncCheck(p) =>
                syncStatus' = [needsSync |-> UnsyncedCountOf(user) > 0,
                               unsyncedCount |-> UnsyncedCountOf(user)]
          /\ SyncRecheck(p) =>
                syncStatus' = [needsSync |-> FALSE, unsyncedCount |-> 0]]_vars

\* C10 witness: three custom flashcards of the owner, one mirrored; the
\* status was 2, the sync mirrored two, the status read after it is 0.
C10_Witness ==
    /\ Cardinality(Unmirrored0) = 2
    /\ Cardinality({c \in custom : c.user_id = user /\ c.status = "ACTIVE"}) = 3
    /\ syncStatus = [needsSync |-> FALSE, unsyncedCount |-> 0]
    /\ \E p \in 1..Len(procs) :
          /\ procs[p].pc = "done"
          /\ procs[p].result = [success |-> TRUE, synced |-> 2]


(***************************************************************************)
(* Properties of the save side: uniqueness and the duplicate-save guard.   *)
(***************************************************************************)
SameKey(r1, r2) ==
    /\ r1.UserID = r2.UserID
    /\ r1.flashcard_id = r2.flashcard_id
    /\ r1.flashcard_type = r2.flashcard_type

\* C11: in every reachable state, whatever the interleaving of toggleSave,
\* the sync and the unsave and delete commits, saved_flashcards holds at most
\* one row for each (UserID, flashcard_id, flashcard_type).
C11_Uniqueness ==
    \A r1 \in saved : \A r2 \in saved : SameKey(r1, r2) => r1 = r2

\* C11 witness: a save of a flashcard that is already in the table was
\* refused, a sync has mirrored a custom flashcard, and a commit has removed
\* a row.
C11_Witness ==
    /\ out.kind = "alreadySaved"
    /\ \E p \in 1..Len(procs) : Returned(p) /\ procs[p].result.synced > 0
    /\ \E r \in InitSaved : r.UserID = user /\ r \notin saved

\* C12: when the insert of a save is answered with the unique violation,
\* the table is left as it was, and toggleSave ends with the information
\* 'already saved' (no error message) and with the flashcard in savedCards.
C12_DuplicateSaveGuard ==
    [][\A i \in 1..Len(saves) :
          /\ (SaveStore(i, TRUE) /\ saves'[i].result = "23505") =>
                saved' = saved /\ custom' = custom
          /\ (saves[i].result = "23505" /\ SaveReply(i)) =>
                /\ out' = Say("alreadySaved", saves[i].flashcardId.key)
                /\ saved' = saved /\ custom' = custom
                /\ saves[i].flashcardId \in savedCards']_vars

\* C12 witness: the flashcard was in the table but not in savedCards when
\* toggleSave was called; the call has ended with 'already saved'.
C12_Witness ==
    /\ out = Say("alreadySaved", AppId(1).key)
    /\ saves = << >>
    /\ AppId(1) \in savedCards
    /\ \E r \in saved : r.UserID = user /\ r.flashcard_id = AppId(1)

(***************************************************************************)
(* Properties of the page fetch.                                           *)
(***************************************************************************)
Delivered == fetching.pc = "done"

\* the ids the content service returned to the call
ReturnedIds ==
    IF fetching.remote = "answered"
    THEN AppIdsOf(fetching.items) \cap env.remote ELSE {}

\* C13: the page returned has one item per index row read, in the same
\* order and with the row's id and fields, whatever the content service and
\* the custom lookup returned; a row without a detail is there as a
\* placeholder.
C13_ResolverKeepsEntries ==
    Delivered =>
       LET rows == fetching.items
           items == fetching.page.items
       IN  /\ Len(items) = Len(rows)
           /\ \A i \in 1..Len(rows) :
                 /\ items[i].id = rows[i].id
                 /\ items[i].flashcard_id = rows[i].flashcard_id
                 /\ items[i].flashcard_type = rows[i].flashcard_type
                 /\ items[i].saved_at = rows[i].saved_at
                 /\ items[i].is_favorite = rows[i].is_favorite

\* C13 witness: a page of four rows, two of them with the same saved_at,
\* where one APP and one CUSTOM row found no detail.
C13_Witness ==
    /\ Delivered
    /\ Len(fetching.page.items) = 4
    /\ \E i, j, k \in 1..4 :
          /\ fetching.page.items[i].flashcard_type = "APP"
          /\ ~fetching.page.items[i].resolved
          /\ fetching.page.items[j].flashcard_type = "CUSTOM"
          /\ ~fetching.page.items[j].resolved
          /\ fetching.page.items[k].resolved

\* C14: a timeout, an error or a partial answer of the content service
\* never fails the page; in the page returned exactly the APP rows whose id
\* was not returned are placeholders, and every CUSTOM row is what it would
\* be had the content service returned every id.
C14_RemoteFailureIsolation ==
    /\ fetching.pc = "failed" => fetching.remote = "skipped"
    /\ Delivered =>
          LET rows == fetching.items
              items == fetching.page.items
          IN  /\ fetching.customDetails \in CustomResponses(CustomIdsOf(rows))
              /\ \A i \in 1..Len(items) :
                    IF rows[i].flashcard_type = "APP"
                    THEN items[i].resolved <=> rows[i].flashcard_id \in ReturnedIds
                    ELSE items[i] = Enrich(rows[i], AppIdsOf(rows),
                                           fetching.customDetails)

\* C14 witness: the content service returned one of the two ids asked for;
\* the page has one APP placeholder, one APP row with its detail and a
\* CUSTOM row with its detail.
C14_Witness ==
    /\ Delivered
    /\ fetching.remote = "answered"
    /\ Cardinality(AppIdsOf(fetching.items)) = 2
    /\ Cardinality(ReturnedIds) = 1
    /\ \E i \in 1..Len(fetching.page.items) :
          /\ fetching.page.items[i].flashcard_type = "CUSTOM"
          /\ fetching.page.items[i].resolved

\* C15: once the index query has answered, the call returns a page, even if
\* the content service never answers.
C15_PageDeliveryTerminates ==
    (fetching.pc \in {"remote", "custom"}) ~> Delivered

\* C15 witness: the timer ended the race, the page was returned with
\* placeholders for the APP rows.
C15_Witness ==
    /\ Delivered
    /\ fetching.remote = "timeout"
    /\ \E i \in 1..Len(fetching.page.items) :
          /\ fetching.page.items[i].flashcard_type = "APP"
          /\ fetching.page.items[i].flashcard_id \in env.remote
          /\ ~fetching.page.items[i].resolved

(***************************************************************************)
(* Properties of the unsave commit, the cancellation and the action type.  *)
(***************************************************************************)
\* C16: the store call of an 'unsave' commit removes from saved_flashcards
\* at most the row of the flashcard, the owner's, and nothing else; it leaves
\* custom_flashcards and the content service as they are, and so do the
\* other steps of the commit.
C16_UnsaveFrame ==
    [][\A i \in 1..Len(timers) :
          timers[i].actionType = "unsave" =>
             /\ (\E ok \in BOOLEAN : UnsaveStep(i, ok)) =>
                   /\ custom' = custom
                   /\ env' = env
                   /\ saved' \subseteq saved
                   /\ \A r \in saved \ saved' :
                         r.id = timers[i].flashcard.id /\ r.UserID = user
             /\ ClientResult(i) => saved' = saved /\ custom' = custom /\ env' = env]_vars

\* C16 witness: the 'unsave' of a CUSTOM card has deleted its index row; the
\* custom flashcard and the other rows are there.
C16_Witness ==
    \E i \in 1..Len(timers) :
       /\ timers[i].actionType = "unsave"
       /\ timers[i].pc = "reply"
       /\ timers[i].success
       /\ timers[i].flashcard.flashcard_type = "CUSTOM"
       /\ timers[i].flashcard.id \notin {r.id : r \in saved}
       /\ custom = InitCustom
       /\ Cardinality(saved) = Cardinality(InitSaved) - 1

\* the callback of an 'unsave' commit whose delete failed returns
UnsaveFailed(i) ==
    /\ timers[i].pc = "reply"
    /\ timers[i].actionType = "unsave"
    /\ ~timers[i].success
    /\ ClientResult(i)

C18_CancelNoPersistence ==
    [][(/\ handleUndoUnsave
        /\ \E i \in 1..Len(timers) :
              timers[i].id = pendingUnsave[1].timeoutId /\ Waiting(i)) =>
          /\ saved' = saved /\ custom' = custom /\ env' = env
          /\ \A j \in 1..Len(timers') : timers'[j].id # pendingUnsave[1].timeoutId
          /\ Range(timers') \subseteq Range(timers)]_vars

\* C18 witness: a countdown was undone; no timeout is left and the tables
\* are what they were.
C18_Witness ==
    /\ out.kind = "restored"
    /\ timers = << >>
    /\ pendingUnsave = << >>
    /\ saved = InitSaved
    /\ custom = InitCustom

\* C20: a 'delete' requested on an APP card never ends in a successful commit
\* with the card's saved_flashcards row still there.
C20_ModeLegality ==
    [][\A i \in 1..Len(timers) :
          (/\ timers[i].actionType = "delete"
           /\ timers[i].flashcard.flashcard_type = "APP"
           /\ timers[i].success
           /\ ClientResult(i)) =>
             timers[i].flashcard.id \notin {r.id : r \in saved'}]_vars

(***************************************************************************)
(* Property of the calls made without a session.                           *)
(***************************************************************************)
\* C19: while there is no user, no operation issues a call to a store: the
\* page fetch fails before its query, no favourite update and no save call
\* is started, and a commit's server action returns before its first delete.
C19_UnauthenticatedFailFast ==
    [][user = NoUser /\ user' = NoUser =>
          /\ fetching.pc = "none" => fetching'.pc \in {"none", "failed"}
          /\ Len(pages') <= Len(pages)
          /\ toggles' \subseteq toggles
          /\ Len(saves') <= Len(saves)
          /\ \A i \in 1..Len(timers) :
                (\E ok \in BOOLEAN : DeleteStep1(i, ok) \/ UnsaveStep(i, ok)) =>
                   /\ saved' = saved /\ custom' = custom
                   /\ timers'[i].pc = "reply" /\ ~timers'[i].success]_vars


(***************************************************************************)
(* Properties of the list and the pages under the coordinator's steps.     *)
(***************************************************************************)
\* a step of startUnsaveCountdown, of its callback, of handleUndoUnsave or of
\* handleToggleFavoriteInternal
CoordinatorStep ==
    \/ startUnsaveCountdown
    \/ CallbackResult
    \/ handleUndoUnsave
    \/ handleToggleFavoriteInternal

\* C21: after every step of the coordinator (favourite toggle, optimistic
\* removal, commit, rollback, undo) the list is the concatenation, in order,
\* of the items of the pages.
C21_CachePageConsistency ==
    [][(savedFlashcardsDetails = FlatMapItems(pages) /\ CoordinatorStep) =>
          savedFlashcardsDetails' = FlatMapItems(pages')]_vars

\* the list and the pages agree whenever the data effect has nothing to do
ConsistentAtRest == ~dataDirty => savedFlashcardsDetails = FlatMapItems(pages)


(***************************************************************************)
(* Property of the custom details of a page.                               *)
(***************************************************************************)
\* the custom flashcard an index row of type CUSTOM points at, if any
CustomOf(row) == {c \in custom : c.id = StripCustom(row.flashcard_id)}

\* C22: a CUSTOM row of a page carries a detail only if the custom
\* flashcard with its id, prefix removed, exists, belongs to the user and is
\* ACTIVE; a row whose flashcard is inactive or another user's is a
\* placeholder.
C22_LocalScoping ==
    Delivered =>
       \A i \in 1..Len(fetching.page.items) :
          LET item == fetching.page.items[i]
          IN  (item.flashcard_type = "CUSTOM" /\ item.resolved) =>
                 \E c \in CustomOf(item) : c.user_id = user /\ c.status = "ACTIVE"

\* C22 witness: a page with the user's ACTIVE flashcard resolved, and the
\* user's inactive flashcard and another user's ACTIVE flashcard, both in
\* the table, as placeholders.
C22_Witness ==
    /\ Delivered
    /\ \E i, j, k \in 1..Len(fetching.page.items) :
          LET items == fetching.page.items
          IN  /\ items[i].flashcard_type = "CUSTOM" /\ items[i].resolved
              /\ items[j].flashcard_type = "CUSTOM" /\ ~items[j].resolved
              /\ \E c \in CustomOf(items[j]) : c.user_id = user /\ c.status = "INACTIVE"
              /\ items[k].flashcard_type = "CUSTOM" /\ ~items[k].resolved
              /\ \E c \in CustomOf(items[k]) : c.user_id # user /\ c.status = "ACTIVE"


(***************************************************************************)
(* Property of the ids in the list and the pages.                          *)
(***************************************************************************)
NoDuplicateIds(items) ==
    \A i, j \in 1..Len(items) : items[i].id = items[j].id => i = j

\* C23: in every reachable state no two items of the list, and no two items
\* of the pages, have the same id.
C23_CacheDeduplicated ==
    /\ NoDuplicateIds(savedFlashcardsDetails)
    /\ NoDuplicateIds(FlatMapItems(pages))


\* the cursor the k-th retained page was asked with
CursorOf(k) == IF k = 1 THEN NoCursor ELSE pages[k - 1].nextCursor

\* C24: every page of the walk holds at most limit items; it carries a
\* nextCursor exactly when more than limit rows of the owner match the query
\* (saved_at below the cursor when one was given), the cursor then being the
\* saved_at of the page's last item; a query that matches nothing gives no
\* items and no nextCursor.
C24_PageShape ==
    \A k \in 1..Len(pages) :
        LET p == pages[k]
            matching == CursorQuery(saved, user, CursorOf(k))
        IN  /\ Len(p.items) <= limit
            /\ (p.nextCursor # NoCursor) <=> (Cardinality(matching) > limit)
            /\ p.nextCursor # NoCursor =>
                   /\ Len(p.items) = limit
                   /\ p.nextCursor = p.items[Len(p.items)].saved_at
            /\ matching = {} => (p.items = << >> /\ p.nextCursor = NoCursor)

\* the walk has read a full page with a cursor, a full page without one (the
\* query matched exactly limit rows) is the last
C24_Witness ==
    /\ Len(pages) = 2
    /\ pages[1].nextCursor # NoCursor
    /\ Len(pages[2].items) = limit
    /\ pages[2].nextCursor = NoCursor
    /\ Cardinality(CursorQuery(saved, user, NoCursor)) = 2 * limit

\* the owner has no index row: the first page is empty
C24_EmptyPage ==
    /\ CursorQuery(saved, user, NoCursor) = {}
    /\ pages = <<[items |-> << >>, nextCursor |-> NoCursor]>>


(***************************************************************************)
(* Pagination walk with equal saved_at: as the walk above, but the owner's *)
(* rows at places a..b of the descending order, around the end of the      *)
(* first page, carry one saved_at.                                         *)
(***************************************************************************)
\* saved_at of the owner's k-th row of n when places a..b from the top tie
TieSavedAt(k, n, a, b) ==
    LET place == n - k + 1
        low == IF n - b + 1 < 1 THEN 1 ELSE n - b + 1
    IN  IF place >= a /\ place <= b THEN WalkSavedAt(low) ELSE WalkSavedAt(k)

TieRow(k, n, a, b) ==
    SavedRow(k, "u1", CustomPrefixed(CustomId(k)), "CUSTOM", TieSavedAt(k, n, a, b),
             k % 2 = 0)

InitTie ==
    /\ \E n \in 0..MaxRows, a \in (limit - 1)..(limit + 1) :
          \E b \in a..(a + 2) :
             saved = {TieRow(k, n, a, b) : k \in 1..n} \cup OtherRows(n)
    /\ custom = InitCustom
    /\ now = 3 * MaxRows + 1
    /\ user = "u1"
    /\ env = [remote |-> {}, remoteUp |-> TRUE, detailsUp |-> TRUE]
    /\ InitClient

SpecTie == InitTie /\ [][NextPage]_vars

\* the owner's rows that no retained page holds
Skipped == {r \in OwnRows : \A i \in 1..Len(FlatMapItems(pages)) :
                                FlatMapItems(pages)[i].id # r.id}

\* the owner's rows that share the saved_at of a page's cursor and are not on
\* that page
BehindCursor ==
    {r \in OwnRows : \E k \in 1..Len(pages) :
        /\ pages[k].nextCursor = r.saved_at
        /\ \A i \in 1..Len(pages[k].items) : pages[k].items[i].id # r.id}

\* C25: with .lt('saved_at', cursor), a walk to the end over rows that share
\* a saved_at loses exactly the rows that have the saved_at of a page's cursor
\* and did not fit on that page; no row is returned twice.  The pages put
\* together are the whole list only when no row lies behind a cursor.
C25_TieBreakCaveat ==
    WalkDone =>
        /\ Skipped = BehindCursor
        /\ NoDuplicateIds(FlatMapItems(pages))
        /\ \A i \in 1..Len(FlatMapItems(pages)) :
               \E r \in OwnRows : r.id = FlatMapItems(pages)[i].id

\* a walk that came to its end without two rows of the owner: three rows had
\* the saved_at at which the first page ended
C25_Witness ==
    /\ WalkDone
    /\ Len(pages) = 2
    /\ Cardinality(Skipped) = 2
    /\ \A r \in Skipped : r.saved_at = pages[1].nextCursor
    /\ Len(FlatMapItems(pages)) = Cardinality(OwnRows) - 2


(***************************************************************************)
(* Grace period.                                                           *)
(***************************************************************************)
\* the index row and the custom flashcard behind a card of the list, as far
\* as a delete can change them: which of them exist, and whose they are
RowsOf(rows, flashcard) ==
    {<<r.id, r.UserID>> : r \in {r \in rows : r.id = flashcard.id}}
RecordsOf(rows, flashcard) ==
    {<<c.id, c.user_id>> : c \in {c \in rows : c.id = StripCustom(flashcard.flashcard_id)}}

\* the countdown with this timeout id is running
Counting(ts, timeoutId) ==
    \E i \in 1..Len(ts) : ts[i].id = timeoutId /\ ts[i].pc = "waiting"

\* C26: while a card's countdown runs the card is in neither the list nor the
\* pages, and a step that leaves the countdown running leaves the card's
\* index row and its custom flashcard as they are.
C26_GracePeriod ==
    [][\A i \in 1..Len(timers) :
          Waiting(i) =>
             /\ timers[i].flashcardId \notin ItemIds(savedFlashcardsDetails)
             /\ timers[i].flashcardId \notin ItemIds(FlatMapItems(pages))
             /\ Counting(timers', timers[i].id) =>
                    /\ RowsOf(saved', timers[i].flashcard) =
                           RowsOf(saved, timers[i].flashcard)
                    /\ RecordsOf(custom', timers[i].flashcard) =
                           RecordsOf(custom, timers[i].flashcard)]_vars

\* the store half alone: no delete reaches the rows of a card whose countdown
\* runs, unless an earlier countdown of the same card is being committed
C26_NoDeleteWhileCounting ==
    [][\A i \in 1..Len(timers) :
          (/\ Waiting(i)
           /\ Counting(timers', timers[i].id)
           /\ \A j \in 1..Len(timers) :
                  timers[j].flashcardId = timers[i].flashcardId => j = i) =>
             /\ RowsOf(saved', timers[i].flashcard) = RowsOf(saved, timers[i].flashcard)
             /\ RecordsOf(custom', timers[i].flashcard) =
                    RecordsOf(custom, timers[i].flashcard)]_vars


\* C27: a 'delete' commit whose saved_flashcards delete failed and whose
\* custom_flashcards delete succeeded is reported as a success; the callback
\* leaves the list and the pages as they are, and the custom flashcard stays
\* deleted.
C27_IndexDeleteFailureNonFatal ==
    [][\A i \in 1..Len(timers) :
          (/\ timers[i].pc = "reply"
           /\ timers[i].actionType = "delete"
           /\ timers[i].savedDeleteError = "error"
           /\ timers[i].customDeleteError = "null"
           /\ ~dataDirty
           /\ ClientResult(i))
          => /\ timers[i].success
             /\ out' = Say("deleted", timers[i].flashcardId)
             /\ savedFlashcardsDetails' = savedFlashcardsDetails
             /\ pages' = pages
             /\ RecordsOf(custom, timers[i].flashcard) = {}
             /\ custom' = custom
      ]_vars

\* such a commit has been reported: the index row of the custom flashcard is
\* still stored, the flashcard is not, the card is not in the list
C27_Witness ==
    /\ out = Say("deleted", 2)
    /\ timers = << >>
    /\ saved = InitSaved
    /\ CustomId(1) \notin {c.id : c \in custom}
    /\ 2 \notin ItemIds(savedFlashcardsDetails)
    /\ ~dataDirty


(***************************************************************************)
(* Favourite toggles next to a countdown: the page with its refetch, the   *)
(* optimistic removal, and handleToggleFavoriteInternal called for cards   *)
(* in the list and for cards a countdown has taken out of it.              *)
(***************************************************************************)
\* handleToggleFavoriteInternal when find() returns undefined: return.  pre
\* keeps what the call found.
ToggleNotFound(flashcardId) ==
    /\ ops < MaxOps
    /\ ops' = ops + 1
    /\ ~dataDirty
    /\ flashcardId \notin ItemIds(savedFlashcardsDetails)
    /\ pre' = [valid |-> TRUE, flashcardId |-> flashcardId, pages |-> pages,
               list |-> savedFlashcardsDetails, saved |-> saved, custom |-> custom]
    /\ UNCHANGED <<storeVars, user, env, cacheVars, stale, pendVars, toggles, out,
                   syncVars, hookVars, fetching>>

handleToggleFavoriteMissing ==
    \E flashcardId \in KnownIds : ToggleNotFound(flashcardId)

NextToggle ==
    \/ FetchFirstPage
    \/ Refetch
    \/ DataEffect
    \/ startUnsaveCountdown
    \/ handleToggleFavoriteInternal
    \/ handleToggleFavoriteMissing

SpecToggle == Init /\ [][NextToggle]_vars

\* the rows whose is_favorite differs between two contents of the table
FavoriteWrites(before, after) ==
    {r.id : r \in {r \in before : \E s \in after :
                      s.id = r.id /\ s.is_favorite # r.is_favorite}}

\* C28: a toggle of a card in the list issues one update and no other store
\* call; the answer to an update, good or bad, ends that update and issues
\* none; a step that writes is_favorite writes the row of one update in flight
\* and ends it; a toggle of a card that is not in the list changes nothing.
C28_ToggleSingleAttempt ==
    [][/\ \A id \in ItemIds(savedFlashcardsDetails) :
             ToggleStart(id) =>
                /\ \E g \in toggles' :
                      /\ g \notin toggles
                      /\ toggles' = toggles \cup {g}
                      /\ g.flashcardId = id
                      /\ g.savedCardId = FindById(savedFlashcardsDetails, id).id
                /\ saved' = saved /\ custom' = custom
       /\ \A g \in toggles :
             (ToggleOk(g) \/ ToggleFail(g)) => toggles' = toggles \ {g}
       /\ FavoriteWrites(saved, saved') # {} =>
             \E g \in toggles : /\ toggles' = toggles \ {g}
                                 /\ FavoriteWrites(saved, saved') = {g.savedCardId}
       /\ \A id \in KnownIds :
             ToggleNotFound(id) =>
                UNCHANGED <<storeVars, cacheVars, stale, pendVars, toggles, out>>
      ]_vars

\* a toggle was called for the card whose countdown runs and found no card,
\* after a toggle of the other card failed: no update is in flight, the store
\* is as it was
C28_Witness ==
    /\ pre.valid
    /\ pre.flashcardId \notin ItemIds(pre.list)
    /\ \E i \in 1..Len(timers) : Waiting(i) /\ timers[i].flashcardId = pre.flashcardId
    /\ out.kind = "favFailed"
    /\ toggles = {}
    /\ saved = InitSaved
    /\ savedFlashcardsDetails = pre.list


\* C29: a card whose countdown has not run out is in neither the list nor
\* the retained pages, whatever else has updated them since it was removed.
C29_PendingStaysOut ==
    \A i \in 1..Len(timers) :
        Waiting(i) =>
           /\ \A k \in 1..Len(pages) : timers[i].flashcardId \notin ItemIds(pages[k].items)
           /\ ~dataDirty => timers[i].flashcardId \notin ItemIds(savedFlashcardsDetails)


\* the timeout of the pending card has fired: its callback is running
CommitStarted ==
    /\ pendingUnsave # << >>
    /\ \E i \in 1..Len(timers) :
          timers[i].id = pendingUnsave[1].timeoutId /\ ~Waiting(i)

\* C30: an undo that comes after the timeout of the pending card has fired
\* puts nothing back: the list and the pages stay as they are, and the commit
\* alone decides what becomes of the card.
C30_CommitCancelExclusive ==
    [][(CommitStarted /\ handleUndoUnsave) =>
          /\ savedFlashcardsDetails' = savedFlashcardsDetails
          /\ pages' = pages]_vars



(***************************************************************************)
(* Countdowns side by side.                                                *)
(***************************************************************************)
\* C31: every countdown that has not run out can still be cancelled: the
\* component holds its timeout id and its snapshot, also after a countdown
\* for another card has been started.
C31_PendingStaysCancellable ==
    \A i \in 1..Len(timers) :
        Waiting(i) =>
           \E k \in 1..Len(pendingUnsave) :
              /\ pendingUnsave[k].timeoutId = timers[i].id
              /\ pendingUnsave[k].flashcardId = timers[i].flashcardId


\* the cards with a timeout that is armed or whose callback is running
PendingIds == {timers[i].flashcardId : i \in 1..Len(timers)}

\* C32: once the list is loaded and flattened, every index row of the user
\* that is still stored is in the list, or a timeout for it is armed or
\* running; a countdown that is discarded puts its card back.
C32_NoItemLost ==
    (pages # << >> /\ ~dataDirty /\ ~stale) =>
        \A r \in OwnRows :
            r.id \in ItemIds(savedFlashcardsDetails) \/ r.id \in PendingIds


(***************************************************************************)
(* Commits next to the sync.                                               *)
(***************************************************************************)
\* no checkAndSyncFlashcards call is under way
SyncsAtRest == \A p \in 1..Len(procs) : procs[p].pc \in {"done", "recheck"}

\* C33: when a 'delete' commit of a custom card has succeeded and every sync
\* that ran beside it has returned, the custom flashcard is gone and no index
\* row of type CUSTOM points at it.
C33_NoDanglingAfterDelete ==
    \A i \in 1..Len(timers) :
        (/\ timers[i].pc = "reply"
         /\ timers[i].actionType = "delete"
         /\ timers[i].flashcard.flashcard_type = "CUSTOM"
         /\ timers[i].success
         /\ SyncsAtRest) =>
           LET cid == StripCustom(timers[i].flashcard.flashcard_id)
           IN  /\ cid \notin {c.id : c \in custom}
               /\ MirrorsOf(cid) = {}


(***************************************************************************)
(* The saved page is opened again after a commit: cards are unsaved or     *)
(* deleted first, and once a commit has been reported and no countdown is  *)
(* left the loadData effect runs and with it the sync.                     *)
(***************************************************************************)
\* the loadData effect of a later visit
loadDataLater ==
    /\ timers = << >>
    /\ out.kind \in {"removed", "deleted"}
    /\ loadData

\* a countdown started before that visit
startUnsaveCountdownFirst == procs = << >> /\ startUnsaveCountdown

NextResync ==
    \/ FetchFirstPage
    \/ DataEffect
    \/ startUnsaveCountdownFirst
    \/ TimerFire
    \/ ServerStepOk
    \/ CallbackResult
    \/ loadDataLater
    \/ \E p \in 1..Len(procs) : SyncCheck(p)
    \/ \E p \in 1..Len(procs) : SyncRead(p)
    \/ \E p \in 1..Len(procs) : SyncInsert(p)
    \/ \E p \in 1..Len(procs) : SyncReturn(p)

SpecResync == Init /\ [][NextResync]_vars

\* the custom flashcards of the user that were mirrored at the start and
\* whose index row an 'unsave' commit has removed since
UnsavedCustom ==
    {StripCustom(r.flashcard_id) :
        r \in {r \in InitSaved : /\ r.UserID = user
                                  /\ r.flashcard_type = "CUSTOM"
                                  /\ out = Say("removed", r.id)}}

\* C34: a custom flashcard whose index row an 'unsave' commit has removed,
\* and which is still ACTIVE, has no index row after any sync that starts
\* later.
C34_UnsavedStaysUnsaved ==
    \A cid \in UnsavedCustom :
        CustomRow(cid, user, "ACTIVE") \in custom => MirrorsOf(cid) = {}


(***************************************************************************)
(* Two owners.  u1 uses the browse page, the saved page with its commits   *)
(* and favourite toggles, and the sync; u2 makes no call.  u2 has saved    *)
(* the APP flashcard u1 has saved, and has a mirrored custom flashcard.    *)
(***************************************************************************)
OtherOwner == "u2"

InitOwnersSaved ==
    InitSaved \cup
    {SavedRow(4, OtherOwner, CustomPrefixed(CustomId(3)), "CUSTOM", 2, TRUE)}

InitOwners ==
    /\ saved = InitOwnersSaved
    /\ custom = InitCustom
    /\ now = 3
    /\ user = "u1"
    /\ env = [remote |-> {AppId(1)}, remoteUp |-> TRUE, detailsUp |-> TRUE]
    /\ InitClient

NextOwners ==
    \/ NextSave
    \/ handleToggleFavoriteInternal

SpecOwners == InitOwners /\ [][NextOwners]_vars

RowsOwnedBy(rows, uid) == {r \in rows : r.UserID = uid}
RecordsOwnedBy(rows, uid) == {c \in rows : c.user_id = uid}

\* C35: whatever u1 calls, the index rows and the custom flashcards of u2
\* stay as they were, the first page u2 would be given stays the same, and
\* nothing u1 is given or keeps is a row of u2.
C35_OwnerIsolation ==
    /\ RowsOwnedBy(saved, OtherOwner) = RowsOwnedBy(InitOwnersSaved, OtherOwner)
    /\ RecordsOwnedBy(custom, OtherOwner) = RecordsOwnedBy(InitCustom, OtherOwner)
    /\ getSavedFlashcardsPaginated(saved, OtherOwner, NoCursor) =
           getSavedFlashcardsPaginated(InitOwnersSaved, OtherOwner, NoCursor)
    /\ \A k \in 1..Len(pages) : \A i \in 1..Len(pages[k].items) :
           pages[k].items[i].UserID = user
    /\ \A i \in 1..Len(savedFlashcardsDetails) :
           savedFlashcardsDetails[i].UserID = user
    /\ \A i \in 1..Len(timers) : timers[i].flashcard.UserID = user

\* u1 has unsaved on the browse page the APP flashcard both owners had saved,
\* and the sync has mirrored u1's other custom flashcard: u1 has no row for
\* that APP flashcard, u2 still has
C35_Witness ==
    /\ out = Say("unsaved", AppId(1).key)
    /\ \A r \in RowsOwnedBy(saved, "u1") : r.flashcard_id # AppId(1)
    /\ \E r \in RowsOwnedBy(saved, OtherOwner) : r.flashcard_id = AppId(1)
    /\ MirrorsOf(CustomId(2)) # {}


(***************************************************************************)
(* Pagination walk with saves beside it: the walk of the saved page over   *)
(* rows with distinct saved_at, while the browse page saves APP flashcards *)
(* with saved_at = now, later than every row stored.  The next page is     *)
(* asked for as long as there is one.                                      *)
(***************************************************************************)
\* the owner holds one full page, a little more, or more than two pages
InitWalk ==
    /\ \E n \in {limit, limit + 1, MaxRows} :
          saved = {WalkRow(k) : k \in 1..n} \cup OtherRows(n)
    /\ custom = InitCustom
    /\ now = 3 * MaxRows + 1
    /\ user = "u1"
    /\ env = [remote |-> {AppId(7)}, remoteUp |-> TRUE, detailsUp |-> TRUE]
    /\ InitClient

\* the saved page asks for the first page, then for the next one, and
\* flattens what it has
WalkStep == FetchFirstPage \/ FetchNextPage \/ DataEffect

\* the browse page saves or unsaves one flashcard, one call at a time
toggleSaveWalking == saves = << >> /\ ToggleSaveStart(AppId(2))

NextWalk ==
    \/ WalkStep
    \/ toggleSaveWalking
    \/ \E i \in 1..Len(saves) : SaveStore(i, TRUE)
    \/ \E i \in 1..Len(saves) : SaveReply(i)

SpecWalk == InitWalk /\ [][NextWalk]_vars /\ WF_vars(WalkStep)

\* each page after the first was asked with a cursor, holds only rows below
\* it, and returns a lower cursor or none
CursorsDescend ==
    \A k \in 2..Len(pages) :
        /\ pages[k - 1].nextCursor # NoCursor
        /\ \A i \in 1..Len(pages[k].items) :
               pages[k].items[i].saved_at < pages[k - 1].nextCursor
        /\ pages[k].nextCursor # NoCursor =>
               pages[k].nextCursor < pages[k - 1].nextCursor

\* the rows saved with saved_at = now
SavedNow == {r \in OwnRows : r.saved_at = now}

\* C36: the walk reaches a page without nextCursor; on the way every cursor
\* is lower than the one before, a row saved with saved_at = now is on no
\* page after the first, and no row is returned twice.
C36_PaginationTerminates ==
    /\ <>WalkDone
    /\ [](/\ CursorsDescend
          /\ NoDuplicateIds(FlatMapItems(pages))
          /\ \A k \in 2..Len(pages) : \A r \in SavedNow :
                 r.id \notin ItemIds(pages[k].items))

\* a walk of three pages has ended; a flashcard saved after the first page
\* was read is stored and on no page
C36_Witness ==
    /\ WalkDone
    /\ Len(pages) = 3
    /\ \E r \in SavedNow : r.id \notin ItemIds(FlatMapItems(pages))
    /\ Len(FlatMapItems(pages)) = Cardinality(OwnRows \ SavedNow)


(***************************************************************************)
(* The saved set of the browse page against the index store.               *)
(***************************************************************************)
\* no other toggleSave call for this flashcard is under way
LastCallFor(i) ==
    \A j \in 1..Len(saves) : saves[j].flashcardId = saves[i].flashcardId => j = i

\* C37: when a toggleSave call returns and no other call for its flashcard
\* is under way, the flashcard is in savedCards exactly when the user has an
\* APP row for it; a call whose store call failed with an error other than
\* the unique violation leaves the set and the table as they are.
C37_SavedSetTracksStore ==
    [][\A i \in 1..Len(saves) :
          SaveReply(i) =>
             IF saves[i].result = "error"
             THEN savedCards' = savedCards /\ saved' = saved
             ELSE LastCallFor(i) =>
                     ((saves[i].flashcardId \in savedCards') <=>
                         (saves[i].flashcardId \in SavedAppIds(saved', saves[i].uid)))
      ]_vars

=============================================================================
